---------------------------- MODULE Spec2Model ----------------------------
(***************************************************************************)
(* A model of the caching, incremental-reuse and scoring core of           *)
(* fluid-grep (crates/core): optimizer.rs, cache.rs, incremental.rs and    *)
(* heuristic.rs.                                                           *)
(*                                                                         *)
(* Strings are sequences of characters; a character is a one-character     *)
(* TLA+ string.  Byte buffers are sequences of small integers.             *)
(***************************************************************************)
EXTENDS Integers, Sequences, FiniteSets, TLC

VARIABLES
    \* optimizer.rs FileContentCache
    cache,               \* path -> Option of content (HashMap<PathBuf, Arc<[u8]>>)
    access_order,        \* Vec<PathBuf>
    max_size_bytes,
    current_size_bytes,
    live_order,          \* history: the cached paths, oldest unbroken residence first
    \* cache.rs DirectoryCache
    entries,             \* key -> Option of [value, cached_at]
    now,                 \* the monotonic clock read by Instant::now() and elapsed()
    dir_inserted,        \* history: key -> Option of the latest insert [value, at]
    \* incremental.rs IncrementalSearch
    last_pattern,        \* String
    cached_results,      \* Vec<IncrementalResult>
    pattern_history,     \* VecDeque<String>
    max_results,
    \* cache.rs SearchResultCache
    src_last_pattern,    \* last_pattern: String
    src_last_results,    \* last_results: Vec<CachedResult>
    src_cached_at,       \* cached_at: Instant
    src_updated_at,      \* history: when the cache was built or last updated
    \* heuristic.rs, incremental.rs: the arguments of a call of a pure function
    sc_pattern,          \* pattern (s1 of levenshtein_distance)
    sc_text,             \* text (s2 of levenshtein_distance)
    sc_is_exact,
    sc_is_case_sensitive,
    sc_config,
    rk_candidates,       \* candidates: &[&str] of rank_candidates
    \* optimizer.rs PatternCache
    pc_keys,             \* keys: Vec<String>
    pc_max_size,         \* max_size
    \* cache.rs BoundedSearch
    bs_max_results,
    bs_min_results,
    bs_stop_early,
    \* optimizer.rs PathFilter and the file system it looks at
    pf_max_file_size,    \* max_file_size
    pf_path,             \* the path asked about, as its segments
    pf_metadata,         \* std::fs::metadata(path): Option of [is_file, len]
    \* the Arc allocations behind the values of the two caches
    arc_heap,            \* allocation -> content, in order of allocation
    fcc_arc,             \* path -> allocation held by FileContentCache.cache (0: none)
    dir_arc,             \* key -> allocation held by DirectoryCache.entries (0: none)
    held,                \* Option of [arc, content]: what a get handed to a reader
    \* the corpus a full scan reads
    corpus,
    \* a scan loop that polls BoundedSearch::should_stop
    loop_count,          \* results added so far
    loop_files,          \* distinct files that gave a result so far
    loop_stopped,        \* whether a poll has ended the loop
    \* optimizer.rs PathFilter::is_binary
    pf_skip_binary,      \* skip_binary
    pf_content,          \* content: &[u8]
    \* ripgrep_config.rs RipgrepConfig
    cfg_content,         \* content: the lines of a configuration file handed to parse_toml
    cfg_value,           \* Option of the RipgrepConfig handed to to_toml
    \* the files RipgrepConfig::save works on, and the saves under way
    fs_inodes,           \* file -> content (its lines), in order of creation
    fs_config,           \* the file at the configuration path (0: none)
    fs_tmp,              \* the file at the temporary path (0: none)
    save_pc,             \* save call -> the step it has reached
    save_fd,             \* save call -> the file its handle is open on (0: none)
    save_plan,           \* save call -> the parts write_all has still to write
    last_op              \* history: the operation that produced this state

fccVars == <<cache, access_order, max_size_bytes, current_size_bytes, live_order>>

dirVars == <<entries, now, dir_inserted>>

incVars == <<last_pattern, cached_results, pattern_history, max_results>>

srcVars == <<src_last_pattern, src_last_results, src_cached_at, src_updated_at>>

scVars == <<sc_pattern, sc_text, sc_is_exact, sc_is_case_sensitive, sc_config>>

rkVars == <<rk_candidates>>

pcVars == <<pc_keys, pc_max_size>>

bsVars == <<bs_max_results, bs_min_results, bs_stop_early>>

pfVars == <<pf_max_file_size, pf_path, pf_metadata>>

arcVars == <<arc_heap, fcc_arc, dir_arc, held>>

scanVars == <<corpus>>

loopVars == <<loop_count, loop_files, loop_stopped>>

binVars == <<pf_skip_binary, pf_content>>

cfgVars == <<cfg_content, cfg_value>>

fsVars == <<fs_inodes, fs_config, fs_tmp, save_pc, save_fd, save_plan>>

vars == <<fccVars, dirVars, incVars, srcVars, scVars, rkVars, pcVars, bsVars, pfVars,
          arcVars, scanVars, loopVars, binVars, cfgVars, fsVars, last_op>>

\* What an operation of one component leaves alone: the other components.
FccFrame ==
    UNCHANGED <<dirVars, incVars, srcVars, scVars, rkVars, pcVars, bsVars, pfVars,
                arcVars, scanVars, loopVars, binVars, cfgVars, fsVars>>

DirFrame ==
    UNCHANGED <<fccVars, incVars, srcVars, scVars, rkVars, pcVars, bsVars, pfVars,
                arcVars, scanVars, loopVars, binVars, cfgVars, fsVars>>

IncFrame ==
    UNCHANGED <<fccVars, dirVars, srcVars, scVars, rkVars, pcVars, bsVars, pfVars,
                arcVars, scanVars, loopVars, binVars, cfgVars, fsVars>>

SrcFrame ==
    UNCHANGED <<fccVars, incVars, entries, dir_inserted, scVars, rkVars, pcVars, bsVars,
                pfVars, arcVars, scanVars, loopVars, binVars, cfgVars, fsVars>>

ScFrame ==
    UNCHANGED <<fccVars, dirVars, incVars, srcVars, rkVars, pcVars, bsVars, pfVars,
                arcVars, scanVars, loopVars, binVars, cfgVars, fsVars>>

\* rank_candidates reads its arguments only
RkFrame ==
    UNCHANGED <<fccVars, dirVars, incVars, srcVars, scVars, rkVars, pcVars, bsVars,
                pfVars, arcVars, scanVars, loopVars, binVars, cfgVars, fsVars>>

PcFrame ==
    UNCHANGED <<fccVars, dirVars, incVars, srcVars, scVars, rkVars, bsVars, pfVars,
                arcVars, scanVars, loopVars, binVars, cfgVars, fsVars>>

BsFrame ==
    UNCHANGED <<fccVars, dirVars, incVars, srcVars, scVars, rkVars, pcVars, bsVars,
                pfVars, arcVars, scanVars, loopVars, binVars, cfgVars, fsVars>>

PfFrame ==
    UNCHANGED <<fccVars, dirVars, incVars, srcVars, scVars, rkVars, pcVars, bsVars,
                pfVars, arcVars, scanVars, loopVars, binVars, cfgVars, fsVars>>

ArcFrame ==
    UNCHANGED <<incVars, srcVars, scVars, rkVars, pcVars, bsVars, pfVars, scanVars,
                loopVars, binVars, cfgVars, fsVars>>

(***************************************************************************)
(* Generic helpers                                                         *)
(***************************************************************************)
\* Option<T>: None is the empty sequence, Some(v) the one-element sequence <<v>>.
NoValue == <<>>

Some(v) == <<v>>

IsSome(o) == o # <<>>

Val(o) == o[1]

NoOp == [op |-> "new"]

Min(a, b) == IF a <= b THEN a ELSE b

Max(a, b) == IF a >= b THEN a ELSE b

SeqsUpTo(S, n) == UNION {[1..k -> S] : k \in 0..n}

Range(s) == {s[i] : i \in DOMAIN s}

RECURSIVE SumLen(_, _)
SumLen(f, S) ==
    IF S = {} THEN 0
    ELSE LET p == CHOOSE x \in S : TRUE
         IN  (IF IsSome(f[p]) THEN Len(Val(f[p])) ELSE 0) + SumLen(f, S \ {p})

RemoveAll(s, x) == SelectSeq(s, LAMBDA y : y # x)

(***************************************************************************)
(* FileContentCache (optimizer.rs)                                         *)
(***************************************************************************)
\* bounds of the model
MaxBudget == 3        \* max_size_bytes is drawn from 0..MaxBudget
MaxContentLen == 2    \* contents are byte buffers of at most this length
MaxOrder == 4         \* inserts stop when access_order has this many elements
MaxCounter == 5       \* inserts stop when current_size_bytes would pass this

Paths == {"a", "b"}

ByteVals == {7}

Contents == SeqsUpTo(ByteVals, MaxContentLen)

\* usize::saturating_sub
SaturatingSub(a, b) == IF a >= b THEN a - b ELSE 0

\* Mutant of EvictLoop: the oldest path leaves the order list while its
\* entry stays in the map.
RECURSIVE EvictLoop_OrderOnly(_, _, _)
EvictLoop_OrderOnly(st, size, budget) ==
    IF st.cur + size > budget /\ st.order # <<>>
    THEN LET oldest == Head(st.order)
             hit == IsSome(st.cache[oldest])
         IN  EvictLoop_OrderOnly(
                 [st EXCEPT !.order = Tail(st.order),
                            !.cur = IF hit
                                    THEN SaturatingSub(st.cur, Len(Val(st.cache[oldest])))
                                    ELSE st.cur],
                 size, budget)
    ELSE st

\* One pass of the eviction loop of insert: the state is
\* [cache, order, cur, evicted], evicted being the paths whose entry was removed.
RECURSIVE EvictLoop(_, _, _)
EvictLoop(st, size, budget) ==
    IF st.cur + size > budget /\ st.order # <<>>
    THEN LET oldest == Head(st.order)
             hit == IsSome(st.cache[oldest])
         IN  EvictLoop([cache   |-> IF hit THEN [st.cache EXCEPT ![oldest] = NoValue]
                                           ELSE st.cache,
                        order   |-> Tail(st.order),
                        cur     |-> IF hit THEN SaturatingSub(st.cur, Len(Val(st.cache[oldest])))
                                           ELSE st.cur,
                        evicted |-> IF hit THEN Append(st.evicted, oldest)
                                           ELSE st.evicted],
                       size, budget)
    ELSE st

\* Mutant of InsertRejects: the size test is missing.
InsertRejects_NoCheck(content, budget) == FALSE

\* insert: "If single file exceeds max, don't cache it"
InsertRejects(content, budget) == Len(content) > budget

\* The whole of insert as a function of the state it reads.
InsertResult(c, order, cur, budget, path, content) ==
    IF InsertRejects(content, budget)
    THEN [cache |-> c, order |-> order, cur |-> cur, evicted |-> <<>>, cached |-> FALSE]
    ELSE LET st == EvictLoop([cache |-> c, order |-> order, cur |-> cur, evicted |-> <<>>],
                             Len(content), budget)
         IN  [cache   |-> [st.cache EXCEPT ![path] = Some(content)],
              order   |-> Append(st.order, path),
              cur     |-> st.cur + Len(content),
              evicted |-> st.evicted,
              cached  |-> TRUE]

\* FileContentCache::get
FccGetResult(c, path) == c[path]

\* FileContentCache::stats
FccStats(c, cur) == <<Cardinality({p \in Paths : IsSome(c[p])}), cur>>

\* The history of residence: evicted paths leave, a path that was absent when
\* the new value was stored joins at the end, an overwritten path keeps its place.
LiveAfterInsert(live, r, c, path) ==
    LET kept == SelectSeq(live, LAMBDA p : p \notin Range(r.evicted))
    IN  IF ~r.cached THEN live
        ELSE IF path \in Range(kept) THEN kept
        ELSE Append(kept, path)

FccInit ==
    /\ cache = [p \in Paths |-> NoValue]
    /\ access_order = <<>>
    /\ max_size_bytes \in 0..MaxBudget
    /\ current_size_bytes = 0
    /\ live_order = <<>>

FccInsert(path, content) ==
    LET r == InsertResult(cache, access_order, current_size_bytes, max_size_bytes,
                          path, content)
    IN  /\ Len(access_order) < MaxOrder
        /\ current_size_bytes + Len(content) <= MaxCounter
        /\ cache' = r.cache
        /\ access_order' = r.order
        /\ current_size_bytes' = r.cur
        /\ live_order' = LiveAfterInsert(live_order, r, cache, path)
        /\ last_op' = [op |-> "insert", path |-> path, content |-> content,
                       evicted |-> r.evicted, cached |-> r.cached]
        /\ UNCHANGED max_size_bytes
        /\ FccFrame

FccGet(path) ==
    /\ last_op' = [op |-> "get", path |-> path, ret |-> FccGetResult(cache, path)]
    /\ UNCHANGED fccVars
    /\ FccFrame

FccClear ==
    /\ cache' = [p \in Paths |-> NoValue]
    /\ access_order' = <<>>
    /\ current_size_bytes' = 0
    /\ live_order' = <<>>
    /\ last_op' = [op |-> "clear"]
    /\ UNCHANGED max_size_bytes
    /\ FccFrame

FccNext ==
    \/ \E path \in Paths, content \in Contents : FccInsert(path, content)
    \/ \E path \in Paths : FccGet(path)
    \/ FccClear

(***************************************************************************)
(* DirectoryCache (cache.rs)                                               *)
(***************************************************************************)
DirTtl == 5           \* Duration::from_secs(5)

MaxTime == 11         \* the clock stops here

Dirs == {"/d", "/d/.", "/e"}

\* canonicalize_key: "/d/." and "/d" name the same directory.
Canon(dir) == IF dir = "/d/." THEN "/d" ELSE dir

Keys == {Canon(d) : d \in Dirs}

Listings == {<<"/d/f1">>, <<"/d/f1", "/d/f2">>}

\* Mutant of DirLive: an entry is still live at elapsed = ttl.
DirLive_Inclusive(cached_at, t) == t - cached_at <= DirTtl

\* cached_at.elapsed() < self.ttl
DirLive(cached_at, t) == t - cached_at < DirTtl

\* DirectoryCache::get
DirGetResult(e, t, dir) ==
    LET key == Canon(dir)
    IN  IF IsSome(e[key]) /\ DirLive(Val(e[key]).cached_at, t)
        THEN Some(Val(e[key]).value)
        ELSE NoValue

\* DirectoryCache::insert
DirInsertResult(e, t, dir, listing) ==
    [e EXCEPT ![Canon(dir)] = Some([value |-> listing, cached_at |-> t])]

\* Mutant of DirCleanupResult: an entry whose elapsed time equals the ttl is kept.
DirCleanupResult_KeepsAtTtl(e, t) ==
    [k \in Keys |-> IF IsSome(e[k]) /\ t - Val(e[k]).cached_at <= DirTtl
                    THEN e[k] ELSE NoValue]

\* DirectoryCache::cleanup (HashMap::retain)
DirCleanupResult(e, t) ==
    [k \in Keys |-> IF IsSome(e[k]) /\ DirLive(Val(e[k]).cached_at, t) THEN e[k] ELSE NoValue]

DirInit ==
    /\ entries = [k \in Keys |-> NoValue]
    /\ now = 0
    /\ dir_inserted = [k \in Keys |-> NoValue]

DirInsert(dir, listing) ==
    /\ entries' = DirInsertResult(entries, now, dir, listing)
    /\ dir_inserted' = [dir_inserted EXCEPT ![Canon(dir)] = Some([value |-> listing, at |-> now])]
    /\ last_op' = [op |-> "insert", path |-> dir, content |-> listing]
    /\ UNCHANGED now
    /\ DirFrame

DirGet(dir) ==
    /\ last_op' = [op |-> "get", path |-> dir, ret |-> DirGetResult(entries, now, dir)]
    /\ UNCHANGED dirVars
    /\ DirFrame

DirCleanup ==
    /\ entries' = DirCleanupResult(entries, now)
    /\ last_op' = [op |-> "cleanup"]
    /\ UNCHANGED <<now, dir_inserted>>
    /\ DirFrame

\* Time passes between two calls.
Tick ==
    /\ now < MaxTime
    /\ now' = now + 1
    /\ last_op' = [op |-> "tick"]
    /\ UNCHANGED <<entries, dir_inserted>>
    /\ DirFrame

DirNext ==
    \/ \E dir \in Dirs, listing \in Listings : DirInsert(dir, listing)
    \/ \E dir \in Dirs : DirGet(dir)
    \/ DirCleanup
    \/ Tick

(***************************************************************************)
(* Strings (str / String): sequences of characters.  The characters U+00E9 *)
(* and U+00C9 (e and E with an acute accent) are written "e2" and "E2":    *)
(* they take two bytes in UTF-8, every other character of the model one.   *)
(***************************************************************************)
TwoByteChars == {"e2", "E2"}

\* the UTF-8 length of a char
Width(ch) == IF ch \in TwoByteChars THEN 2 ELSE 1

\* str::len: the length in bytes
RECURSIVE ByteLen(_)
ByteLen(s) == IF s = <<>> THEN 0 ELSE Width(Head(s)) + ByteLen(Tail(s))

\* char::to_lowercase
LowerChar(ch) ==
    CASE ch = "A" -> "a"
      [] ch = "F" -> "f"
      [] ch = "N" -> "n"
      [] ch = "U" -> "u"
      [] ch = "E2" -> "e2"
      [] OTHER -> ch

\* u8/char::to_ascii_lowercase: only the ASCII letters change
AsciiLowerChar(ch) == IF Width(ch) = 1 THEN LowerChar(ch) ELSE ch

\* char::eq_ignore_ascii_case
eq_ignore_ascii_case(a, b) == AsciiLowerChar(a) = AsciiLowerChar(b)

\* char::is_alphanumeric: the space is the one character of the model that is not
is_alphanumeric(ch) == ch # " "

\* u8::is_ascii_alphanumeric, of the byte of a one-byte character or of a byte
\* of a two-byte one
is_ascii_alphanumeric(ch) == Width(ch) = 1 /\ ch # " "

\* str::to_lowercase
ToLower(s) == [i \in DOMAIN s |-> LowerChar(s[i])]

\* str::starts_with
StartsWith(s, p) == Len(p) <= Len(s) /\ SubSeq(s, 1, Len(p)) = p

\* the occurrence of p in s at char index i (1-based)
OccursAt(s, p, i) == i + Len(p) - 1 <= Len(s) /\ SubSeq(s, i, i + Len(p) - 1) = p

\* str::contains
Contains(s, p) == \E i \in 1..(Len(s) + 1) : OccursAt(s, p, i)

\* all prefixes of a word, the empty one included
Prefixes(w) == {SubSeq(w, 1, k) : k \in 0..Len(w)}

(***************************************************************************)
(* incremental_score (incremental.rs)                                      *)
(*                                                                         *)
(* A u32 is carried as its two's-complement residue: a value below 2^31    *)
(* is itself, a value v from 2^31 on is v - 2^32.  Sums of the residues    *)
(* the model meets stay far inside the 32 bits, so adding residues is      *)
(* adding modulo 2^32.  With overflow checks (debug builds) an arithmetic  *)
(* overflow panics; without them (release builds) it wraps.                *)
(***************************************************************************)
\* u32 `<`
U32Less(x, y) ==
    IF (x < 0) = (y < 0) THEN x < y ELSE y < 0

\* u32::max
U32Max(x, y) == IF U32Less(x, y) THEN y ELSE x

\* whether x + y leaves the range of u32
U32AddOverflows(x, y) ==
    IF x < 0 /\ y < 0 THEN TRUE
    ELSE IF x < 0 \/ y < 0 THEN x + y >= 0
    ELSE FALSE

\* the 100 of (100 - i as u32)
FuzzyBase == 100

\* (100 - i as u32).max(1): for i > 100 the difference has wrapped
FuzzyBonus(i) == U32Max(FuzzyBase - i, 1)

\* The fuzzy loop from text char index `from` (0-based) on: the score
\* returned and whether an operation overflowed on the way.  The iterations
\* over characters that do not match change nothing, so the loop is followed
\* from one match to the next.
RECURSIVE FuzzyLoop(_, _, _, _, _, _)
FuzzyLoop(pc, tc, from, pattern_idx, score, overflow) ==
    LET hits == {k \in from..(Len(tc) - 1) : tc[k + 1] = pc[pattern_idx + 1]}
    IN  IF pattern_idx >= Len(pc)
        THEN [ret |-> U32Max(score, 100), overflow |-> overflow]
        ELSE IF hits = {}
        THEN [ret |-> 0, overflow |-> overflow]
        ELSE LET i == CHOOSE k \in hits : \A h \in hits : k <= h
                 bonus == FuzzyBonus(i)
                 o == overflow \/ i > FuzzyBase \/ U32AddOverflows(score, bonus)
             IN  IF pattern_idx + 1 = Len(pc)
                 THEN [ret |-> score + bonus, overflow |-> o]
                 ELSE FuzzyLoop(pc, tc, i + 1, pattern_idx + 1, score + bonus, o)

\* incremental_score as a run without overflow checks computes it, with a
\* note of whether an operation overflowed
IncrementalScoreRun(pattern, text) ==
    LET pattern_lower == ToLower(pattern)
        text_lower == ToLower(text)
        done(v) == [ret |-> v, overflow |-> FALSE]
    IN  IF pattern = <<>> THEN done(1000)
        ELSE IF text_lower = pattern_lower THEN done(1000)
        ELSE IF StartsWith(text_lower, pattern_lower) THEN done(900)
        ELSE IF Contains(text_lower, pattern_lower) THEN done(700)
        ELSE IF pattern_lower = <<>> \/ pattern_lower[1] \notin Range(text_lower)
             THEN done(0)
        ELSE FuzzyLoop(pattern_lower, text_lower, 0, 0, 0, FALSE)

\* the value incremental_score returns when it returns
incremental_score(pattern, text) == IncrementalScoreRun(pattern, text).ret

\* whether incremental_score panics in a build with overflow checks
incremental_score_overflows(pattern, text) == IncrementalScoreRun(pattern, text).overflow

(***************************************************************************)
(* IncrementalSearch (incremental.rs)                                      *)
(***************************************************************************)
HistoryCap == 100     \* pattern_history keeps at most 100 patterns

MaxUpdates == 1       \* updates stop when pattern_history has this many elements

MaxCached == 2        \* update is given at most this many results

\* the patterns a user types, deletes or pastes
Patterns == Prefixes(<<"f", "n", "u", "c">>) \cup Prefixes(<<"F", "n">>) \cup {<<"f", "e2">>}

\* the test helper make_result
MakeResult(text, path, score) ==
    [text |-> text, text_lower |-> ToLower(text), path |-> path, score |-> score]

Pool == {MakeResult(<<"F", "n", "u">>, "/a.rs", 900), MakeResult(<<"u", "f">>, "/b.rs", 800)}

ResultLists == SeqsUpTo(Pool, MaxCached)

IncrCaps == {1, 2}

\* the scoring functions a caller passes to filter_results
ScoreFns == {"incremental_score", "starts_with"}

\* "starts_with" is the closure |p, t| if t.starts_with(p) { 500 } else { 0 }
ApplyScoreFn(f, pattern, text) ==
    IF f = "incremental_score" THEN incremental_score(pattern, text)
    ELSE IF StartsWith(text, pattern) THEN 500 ELSE 0

\* Mutant of can_reuse: the test for an empty result cache is missing.
can_reuse_NoEmptyTest(lp, cr, new_pattern) ==
    /\ new_pattern # <<>> /\ lp # <<>>
    /\ \/ ByteLen(new_pattern) = ByteLen(lp) + 1 /\ StartsWith(new_pattern, lp)
       \/ ByteLen(lp) = ByteLen(new_pattern) + 1 /\ StartsWith(lp, new_pattern)

\* IncrementalSearch::can_reuse, of the cache state (last_pattern, cached_results)
can_reuse(lp, cr, new_pattern) ==
    IF new_pattern = <<>> \/ lp = <<>> THEN FALSE
    ELSE IF cr = <<>> THEN FALSE
    ELSE IF ByteLen(new_pattern) = ByteLen(lp) + 1 /\ StartsWith(new_pattern, lp) THEN TRUE
    ELSE IF ByteLen(lp) = ByteLen(new_pattern) + 1 /\ StartsWith(lp, new_pattern) THEN TRUE
    ELSE FALSE

\* Mutant of InsertByScore: an element goes before the elements of equal score.
RECURSIVE InsertByScore_Unstable(_, _)
InsertByScore_Unstable(sorted, x) ==
    IF sorted = <<>> THEN <<x>>
    ELSE IF U32Less(x.score, Head(sorted).score)
         THEN <<Head(sorted)>> \o InsertByScore_Unstable(Tail(sorted), x)
         ELSE <<x>> \o sorted

\* slice::sort_by(|a, b| b.score.cmp(&a.score)): a stable sort, here by insertion
RECURSIVE InsertByScore(_, _)
InsertByScore(sorted, x) ==
    IF sorted = <<>> THEN <<x>>
    ELSE IF ~U32Less(Head(sorted).score, x.score)
         THEN <<Head(sorted)>> \o InsertByScore(Tail(sorted), x)
         ELSE <<x>> \o sorted

RECURSIVE StableSortDesc(_)
StableSortDesc(s) ==
    IF s = <<>> THEN <<>>
    ELSE InsertByScore(StableSortDesc(SubSeq(s, 1, Len(s) - 1)), s[Len(s)])

\* the filter_map of filter_results
RECURSIVE Rescore(_, _, _)
Rescore(cr, patt_lower, f) ==
    IF cr = <<>> THEN <<>>
    ELSE LET new_score == ApplyScoreFn(f, patt_lower, Head(cr).text_lower)
             rest == Rescore(Tail(cr), patt_lower, f)
         IN  IF U32Less(0, new_score)
             THEN <<[Head(cr) EXCEPT !.score = new_score]>> \o rest
             ELSE rest

\* Mutant of filter_results: the pattern is not lower-cased.
filter_results_NoLower(cr, new_pattern, f) ==
    LET results == Rescore(cr, new_pattern, f)
    IN  IF Len(results) > 1 THEN StableSortDesc(results) ELSE results

\* IncrementalSearch::filter_results
filter_results(cr, new_pattern, f) ==
    LET patt_lower == ToLower(new_pattern)
        results == Rescore(cr, patt_lower, f)
    IN  IF Len(results) > 1 THEN StableSortDesc(results) ELSE results

\* whether filter_results panics in a build with overflow checks: the scoring
\* function of some candidate does
filter_results_overflows(cr, new_pattern, f) ==
    /\ f = "incremental_score"
    /\ \E i \in 1..Len(cr) :
           incremental_score_overflows(ToLower(new_pattern), cr[i].text_lower)

\* Mutant of Take: one element more than asked for is taken.
Take_OneMore(s, n) == SubSeq(s, 1, Min(n + 1, Len(s)))

\* Mutant of Take: the last element taken is lost.
Take_DropLast(s, n) == SubSeq(s, 1, Min(n, Len(s)) - 1)

\* Iterator::take
Take(s, n) == SubSeq(s, 1, Min(n, Len(s)))

\* IncrementalSearch::get_cached
get_cached(cr) == IF cr = <<>> THEN NoValue ELSE Some(cr)

\* IncrementalSearch::stats
IncrStats(cr, hist) == <<Len(cr), Len(hist)>>

\* Mutant of PushHistory: a full history keeps its oldest pattern and
\* loses the newest but one.
PushHistory_KeepOldest(hist, pattern) ==
    LET h == Append(hist, pattern)
    IN  IF Len(h) > HistoryCap
        THEN SubSeq(h, 1, Len(h) - 2) \o <<pattern>>
        ELSE h

\* update: pattern_history.push_back(pattern), then pop_front() when the
\* history holds more than 100 patterns
PushHistory(hist, pattern) ==
    LET h == Append(hist, pattern)
    IN  IF Len(h) > HistoryCap THEN Tail(h) ELSE h

\* can_reuse of a whole IncrementalSearch value: the fields it reads
CanReuseOf(c, new_pattern) == can_reuse(c.last_pattern, c.cached_results, new_pattern)

\* filter_results of a whole IncrementalSearch value: the fields it reads
FilterResultsOf(c, new_pattern, f) == filter_results(c.cached_results, new_pattern, f)

IncrInit ==
    /\ last_pattern = <<>>
    /\ cached_results = <<>>
    /\ pattern_history = <<>>
    /\ max_results \in IncrCaps

\* IncrementalSearch::new with every limit from 0 on
CapInit ==
    /\ last_pattern = <<>>
    /\ cached_results = <<>>
    /\ pattern_history = <<>>
    /\ max_results \in 0..MaxCached

IncrUpdate(pattern, results) ==
    /\ Len(pattern_history) < MaxUpdates
    /\ last_pattern' = pattern
    /\ cached_results' = Take(results, max_results)
    /\ pattern_history' = PushHistory(pattern_history, pattern)
    /\ last_op' = [op |-> "update", pattern |-> pattern, results |-> results]
    /\ UNCHANGED max_results
    /\ IncFrame

IncrCanReuse(new_pattern) ==
    /\ last_op' = [op |-> "can_reuse", pattern |-> new_pattern,
                   ret |-> can_reuse(last_pattern, cached_results, new_pattern)]
    /\ UNCHANGED incVars
    /\ IncFrame

IncrFilterResults(new_pattern, f) ==
    /\ \E overflow_checks \in BOOLEAN :
           LET panic == overflow_checks
                            /\ filter_results_overflows(cached_results, new_pattern, f)
           IN  last_op' = [op |-> "filter_results", pattern |-> new_pattern, f |-> f,
                           panic |-> panic,
                           ret |-> IF panic THEN <<>>
                                   ELSE filter_results(cached_results, new_pattern, f)]
    /\ UNCHANGED incVars
    /\ IncFrame

IncrClear ==
    /\ last_pattern' = <<>>
    /\ cached_results' = <<>>
    /\ pattern_history' = <<>>
    /\ last_op' = [op |-> "clear"]
    /\ UNCHANGED max_results
    /\ IncFrame

IncrNext ==
    \/ \E pattern \in Patterns, results \in ResultLists : IncrUpdate(pattern, results)
    \/ \E new_pattern \in Patterns : IncrCanReuse(new_pattern)
    \/ \E new_pattern \in Patterns, f \in ScoreFns : IncrFilterResults(new_pattern, f)
    \/ IncrClear

(***************************************************************************)
(* SearchResultCache (cache.rs)                                            *)
(***************************************************************************)
SearchTtl == 10       \* Duration::from_secs(10)

CachedResult(score, path, line, line_number) ==
    [score |-> score, path |-> path, line |-> line, line_number |-> line_number]

SearchResultLists ==
    LET r1 == CachedResult(900, "/test/file1", <<"f", "n", "u">>, 1)
        r2 == CachedResult(800, "/test/file2", <<"u", "f">>, 2)
    IN  {<<>>, <<r1>>, <<r1, r2>>}

\* Mutant of SrcExpired: the cache is still valid at elapsed = ttl.
SrcExpired_Late(cached_at, t) == t - cached_at > SearchTtl

\* self.cached_at.elapsed() >= self.ttl
SrcExpired(cached_at, t) == t - cached_at >= SearchTtl

\* SearchResultCache::is_valid
is_valid(lp, cached_at, t, pattern) ==
    IF SrcExpired(cached_at, t) THEN FALSE
    ELSE StartsWith(pattern, lp) \/ StartsWith(lp, pattern)

\* SearchResultCache::get
SrcGetResult(lp, lr, cached_at, t, pattern) ==
    IF is_valid(lp, cached_at, t, pattern) THEN Some(lr) ELSE NoValue

SrcInit ==
    /\ src_last_pattern = <<>>
    /\ src_last_results = <<>>
    /\ src_cached_at = now
    /\ src_updated_at = now

SrcUpdate(pattern, results) ==
    /\ src_last_pattern' = pattern
    /\ src_last_results' = results
    /\ src_cached_at' = now
    /\ src_updated_at' = now
    /\ last_op' = [op |-> "update", pattern |-> pattern, results |-> results]
    /\ UNCHANGED now
    /\ SrcFrame

SrcIsValid(pattern) ==
    /\ last_op' = [op |-> "is_valid", pattern |-> pattern,
                   ret |-> is_valid(src_last_pattern, src_cached_at, now, pattern)]
    /\ UNCHANGED <<srcVars, now>>
    /\ SrcFrame

SrcGet(pattern) ==
    /\ last_op' = [op |-> "get", pattern |-> pattern,
                   ret |-> SrcGetResult(src_last_pattern, src_last_results,
                                        src_cached_at, now, pattern)]
    /\ UNCHANGED <<srcVars, now>>
    /\ SrcFrame

SrcClear ==
    /\ src_last_pattern' = <<>>
    /\ src_last_results' = <<>>
    /\ last_op' = [op |-> "clear"]
    /\ UNCHANGED <<src_cached_at, src_updated_at, now>>
    /\ SrcFrame

\* Time passes between two calls.
SrcTick ==
    /\ now < MaxTime
    /\ now' = now + 1
    /\ last_op' = [op |-> "tick"]
    /\ UNCHANGED srcVars
    /\ SrcFrame

SrcNext ==
    \/ \E pattern \in Patterns, results \in SearchResultLists : SrcUpdate(pattern, results)
    \/ \E pattern \in Patterns : SrcIsValid(pattern)
    \/ \E pattern \in Patterns : SrcGet(pattern)
    \/ SrcClear
    \/ SrcTick

(***************************************************************************)
(* f32 values are modelled by the exact rational they stand for, <<n, d>>  *)
(* with d > 0 and in lowest terms; `as u32` truncates.                     *)
(***************************************************************************)
RECURSIVE GCD(_, _)
GCD(a, b) == IF b = 0 THEN a ELSE GCD(b, a % b)

Abs(x) == IF x < 0 THEN -x ELSE x

Rat(n, d) == LET g == GCD(Abs(n), d) IN IF n = 0 THEN <<0, 1>> ELSE <<n \div g, d \div g>>

RAdd(x, y) == Rat(x[1] * y[2] + y[1] * x[2], x[2] * y[2])

RMul(x, y) == Rat(x[1] * y[1], x[2] * y[2])

RLeq(x, y) == x[1] * y[2] <= y[1] * x[2]

\* f32::min
RMin(x, y) == IF RLeq(x, y) THEN x ELSE y

\* f32::max
RMax(x, y) == IF RLeq(x, y) THEN y ELSE x

\* f32 as u32, of a value that is not negative
AsU32(x) == x[1] \div x[2]

(***************************************************************************)
(* The relevance scorer (heuristic.rs)                                     *)
(***************************************************************************)
MaxPatLen == 2        \* a scored pattern has at most this many characters
MaxTextLen == 3       \* a scored text has at most this many characters

ScoreChars == {"a", "A", "e2"}

\* ScoringWeights::default and a custom set of weights, in hundredths
DefaultWeights ==
    [exact_match |-> 100, case_sensitive |-> 50, word_boundary |-> 30,
     fuzzy_match |-> 20, substring_match |-> 15, length_similarity |-> 10]

CustomWeights ==
    [exact_match |-> 200, case_sensitive |-> 100, word_boundary |-> 50,
     fuzzy_match |-> 30, substring_match |-> 20, length_similarity |-> 10]

\* HeuristicConfig::default
DefaultConfig ==
    [fuzzy_threshold |-> Rat(6, 10), max_edit_distance |-> NoValue,
     unicode_aware |-> TRUE, case_sensitive_substring |-> FALSE,
     consecutive_match_bonus |-> Rat(1, 1), weights |-> DefaultWeights]

Configs ==
    {DefaultConfig,
     [fuzzy_threshold |-> Rat(1, 1), max_edit_distance |-> Some(2),
      unicode_aware |-> FALSE, case_sensitive_substring |-> TRUE,
      consecutive_match_bonus |-> Rat(3, 2), weights |-> CustomWeights],
     [fuzzy_threshold |-> Rat(0, 1), max_edit_distance |-> NoValue,
      unicode_aware |-> FALSE, case_sensitive_substring |-> FALSE,
      consecutive_match_bonus |-> Rat(1, 1), weights |-> DefaultWeights],
     [DefaultConfig EXCEPT !.weights = CustomWeights]}

\* str::find, as the char index (1-based) of the first occurrence; 0 for None
Find(text, pattern) ==
    IF Contains(text, pattern)
    THEN CHOOSE i \in 1..(Len(text) + 1) :
             OccursAt(text, pattern, i) /\ \A j \in 1..(i - 1) : ~OccursAt(text, pattern, j)
    ELSE 0

is_word_boundary_match(pattern, text, unicode_aware) ==
    LET pos == Find(text, pattern)
        after_pos == pos + Len(pattern)
        alnum(ch) == IF unicode_aware THEN is_alphanumeric(ch) ELSE is_ascii_alphanumeric(ch)
        before_ok == IF pos = 1 THEN TRUE ELSE ~alnum(text[pos - 1])
        after_ok == IF after_pos > Len(text) THEN TRUE ELSE ~alnum(text[after_pos])
    IN  IF pos = 0 THEN FALSE ELSE before_ok /\ after_ok

is_substring_match(pattern, text, case_sensitive) ==
    IF case_sensitive THEN Contains(text, pattern)
    ELSE Contains(ToLower(text), ToLower(pattern))

\* the loop of fuzzy_match_with_threshold: the number of pattern chars matched
RECURSIVE FuzzyMatched(_, _)
FuzzyMatched(pattern, text) ==
    IF text = <<>> \/ pattern = <<>> THEN 0
    ELSE IF eq_ignore_ascii_case(Head(text), Head(pattern))
         THEN 1 + FuzzyMatched(Tail(pattern), Tail(text))
         ELSE FuzzyMatched(pattern, Tail(text))

fuzzy_match_with_threshold(pattern, text, threshold) ==
    IF pattern = <<>> THEN TRUE
    ELSE RLeq(threshold, Rat(FuzzyMatched(pattern, text), Len(pattern)))

calculate_length_similarity(pattern, text) ==
    LET pattern_len == ByteLen(pattern)
        text_len == ByteLen(text)
        len_diff == Abs(pattern_len - text_len)
    IN  IF len_diff = 0 THEN Rat(1, 1)
        ELSE RMax(RAdd(Rat(1, 1), Rat(-len_diff, Max(pattern_len, text_len))), Rat(0, 1))

\* pattern.chars().zip(text.chars()).filter(|(p, t)| p == t).count()
CaseMatches(pattern, text) ==
    Cardinality({i \in 1..Min(Len(pattern), Len(text)) : pattern[i] = text[i]})

\* case_matches as f32 / pattern.len().max(1) as f32
CaseRatio(pattern, text) == Rat(CaseMatches(pattern, text), Max(ByteLen(pattern), 1))

\* Mutant of ScaleToU32: the clamp .min(1000.0) is missing.
ScaleToU32_NoClamp(score) == AsU32(RMul(score, Rat(1000, 1)))

\* (score * 1000.0).min(1000.0) as u32
ScaleToU32(score) == AsU32(RMin(RMul(score, Rat(1000, 1)), Rat(1000, 1)))

calculate_relevance_score_with_config(pattern, text, is_exact, is_case_sensitive, config) ==
    LET s0 == Rat(0, 1)
        s1 == IF is_exact THEN RAdd(s0, Rat(1, 1)) ELSE s0
        s2 == IF is_case_sensitive
              THEN IF pattern = text THEN RAdd(s1, Rat(5, 10))
                   ELSE RAdd(s1, RMul(CaseRatio(pattern, text), Rat(25, 100)))
              ELSE s1
        s3 == IF is_word_boundary_match(pattern, text, config.unicode_aware)
              THEN RAdd(s2, Rat(3, 10)) ELSE s2
        s4 == IF fuzzy_match_with_threshold(pattern, text, config.fuzzy_threshold)
              THEN RAdd(s3, Rat(2, 10)) ELSE s3
        s5 == IF is_substring_match(pattern, text, config.case_sensitive_substring)
              THEN RAdd(s4, Rat(15, 100)) ELSE s4
        s6 == RAdd(s5, RMul(calculate_length_similarity(pattern, text), Rat(1, 10)))
    IN  ScaleToU32(s6)

\* Mutant of BreakdownComponents: the substring component has drifted to 0.1.
BreakdownComponents_Drift(pattern, text, is_exact, is_case_sensitive, config) ==
    [exact_match |-> IF is_exact THEN Rat(1, 1) ELSE Rat(0, 1),
     case_sensitive |->
         IF is_case_sensitive
         THEN IF pattern = text THEN Rat(5, 10)
              ELSE RMul(CaseRatio(pattern, text), Rat(25, 100))
         ELSE Rat(0, 1),
     word_boundary |->
         IF is_word_boundary_match(pattern, text, config.unicode_aware)
         THEN Rat(3, 10) ELSE Rat(0, 1),
     fuzzy_match |->
         IF fuzzy_match_with_threshold(pattern, text, config.fuzzy_threshold)
         THEN Rat(2, 10) ELSE Rat(0, 1),
     substring_match |->
         IF is_substring_match(pattern, text, config.case_sensitive_substring)
         THEN Rat(1, 10) ELSE Rat(0, 1),
     length_similarity |-> RMul(calculate_length_similarity(pattern, text), Rat(1, 10))]

\* the six components calculate_relevance_score_breakdown fills in
BreakdownComponents(pattern, text, is_exact, is_case_sensitive, config) ==
    [exact_match |-> IF is_exact THEN Rat(1, 1) ELSE Rat(0, 1),
     case_sensitive |->
         IF is_case_sensitive
         THEN IF pattern = text THEN Rat(5, 10)
              ELSE RMul(CaseRatio(pattern, text), Rat(25, 100))
         ELSE Rat(0, 1),
     word_boundary |->
         IF is_word_boundary_match(pattern, text, config.unicode_aware)
         THEN Rat(3, 10) ELSE Rat(0, 1),
     fuzzy_match |->
         IF fuzzy_match_with_threshold(pattern, text, config.fuzzy_threshold)
         THEN Rat(2, 10) ELSE Rat(0, 1),
     substring_match |->
         IF is_substring_match(pattern, text, config.case_sensitive_substring)
         THEN Rat(15, 100) ELSE Rat(0, 1),
     length_similarity |-> RMul(calculate_length_similarity(pattern, text), Rat(1, 10))]

\* the sum calculate_relevance_score_breakdown takes of its components
ComponentSum(b) ==
    RAdd(RAdd(RAdd(RAdd(RAdd(b.exact_match, b.case_sensitive), b.word_boundary),
                   b.fuzzy_match), b.substring_match), b.length_similarity)

calculate_relevance_score_breakdown(pattern, text, is_exact, is_case_sensitive, config) ==
    LET breakdown == BreakdownComponents(pattern, text, is_exact, is_case_sensitive, config)
        total == ComponentSum(breakdown)
    IN  [exact_match |-> breakdown.exact_match,
         case_sensitive |-> breakdown.case_sensitive,
         word_boundary |-> breakdown.word_boundary,
         fuzzy_match |-> breakdown.fuzzy_match,
         substring_match |-> breakdown.substring_match,
         length_similarity |-> breakdown.length_similarity,
         total |-> ScaleToU32(total)]

ScInit ==
    /\ sc_pattern \in SeqsUpTo(ScoreChars, MaxPatLen)
    /\ sc_text \in SeqsUpTo(ScoreChars, MaxTextLen)
    /\ sc_is_exact \in BOOLEAN
    /\ sc_is_case_sensitive \in BOOLEAN
    /\ sc_config \in Configs

ScoreCall ==
    /\ last_op' = [op |-> "score",
                   ret |-> calculate_relevance_score_with_config(
                               sc_pattern, sc_text, sc_is_exact, sc_is_case_sensitive,
                               sc_config)]
    /\ UNCHANGED scVars
    /\ ScFrame

BreakdownCall ==
    /\ last_op' = [op |-> "breakdown",
                   ret |-> calculate_relevance_score_breakdown(
                               sc_pattern, sc_text, sc_is_exact, sc_is_case_sensitive,
                               sc_config)]
    /\ UNCHANGED scVars
    /\ ScFrame

ScNext ==
    \/ ScoreCall
    \/ BreakdownCall

(***************************************************************************)
(* Program constants of the further components                             *)
(***************************************************************************)
\* usize::MAX of BoundedSearch::unlimited; the model only ever compares
\* against it, and every count of the model lies below it
UsizeMax == 2147483647

\* max_file_size of PathFilter::default_filter
DefaultMaxFileSize == 1000000

(***************************************************************************)
(* rank_candidates (heuristic.rs)                                          *)
(***************************************************************************)
MaxCandidates == 2    \* rank_candidates is given at most this many candidates

\* the candidate texts: the empty one scores 0 against a pattern it shares
\* nothing with, "a" and "A" tie against a pattern that matches neither
RankTexts == {<<>>, <<"a">>, <<"A">>, <<"a", "e2">>}

\* Mutant of ScoredMatchLess: ascending instead of descending.
ScoredMatchLess_Ascending(x, y) == x.score < y.score

\* impl Ord for ScoredMatch: x sorts before y when cmp(x, y) is Less, that is
\* when other.score.cmp(&self.score) is Less
ScoredMatchLess(x, y) == y.score < x.score

\* One step of the stable sort of Vec::sort: x goes behind every element that
\* does not sort after it.
RECURSIVE InsertScored(_, _)
InsertScored(sorted, x) ==
    IF sorted = <<>> THEN <<x>>
    ELSE IF ScoredMatchLess(x, Head(sorted))
         THEN <<x>> \o sorted
         ELSE <<Head(sorted)>> \o InsertScored(Tail(sorted), x)

\* Vec::sort, stable
RECURSIVE SortScored(_)
SortScored(v) ==
    IF v = <<>> THEN <<>>
    ELSE InsertScored(SortScored(SubSeq(v, 1, Len(v) - 1)), v[Len(v)])

\* candidates.iter().map(..).filter(|m| m.score > 0).collect()
RECURSIVE ScoreCandidates(_, _, _)
ScoreCandidates(pattern, candidates, config) ==
    IF candidates = <<>> THEN <<>>
    ELSE LET text == Head(candidates)
             score == calculate_relevance_score_with_config(
                          pattern, text, pattern = text, FALSE, config)
             rest == ScoreCandidates(pattern, Tail(candidates), config)
         IN  IF score > 0 THEN <<[text |-> text, score |-> score]>> \o rest ELSE rest

rank_candidates(pattern, candidates, config) ==
    SortScored(ScoreCandidates(pattern, candidates, config))

RkInit ==
    /\ sc_pattern \in SeqsUpTo(ScoreChars, MaxPatLen)
    /\ sc_text = <<>>
    /\ sc_is_exact = FALSE
    /\ sc_is_case_sensitive = FALSE
    /\ sc_config \in Configs
    /\ rk_candidates \in SeqsUpTo(RankTexts, MaxCandidates)

RankCall ==
    /\ last_op' = [op |-> "rank_candidates",
                   ret |-> rank_candidates(sc_pattern, rk_candidates, sc_config)]
    /\ UNCHANGED scVars
    /\ RkFrame

RkNext == RankCall

(***************************************************************************)
(* levenshtein_distance (heuristic.rs), over the bytes of its arguments    *)
(***************************************************************************)
MaxLevLen == 2        \* an argument of levenshtein_distance has at most this many chars

LevChars == {"a", "b", "e2", "E2"}

\* the UTF-8 bytes of a character: the two-byte ones share their first byte
CharBytes(ch) ==
    CASE ch = "e2" -> <<"c3", "a9">>
      [] ch = "E2" -> <<"c3", "89">>
      [] OTHER -> <<ch>>

\* str::as_bytes
RECURSIVE AsBytes(_)
AsBytes(s) == IF s = <<>> THEN <<>> ELSE CharBytes(Head(s)) \o AsBytes(Tail(s))

\* Mutant of LevCost: a substitution is charged even when the bytes agree.
LevCost_Always(x, y) == 1

\* let cost = if s1_bytes[i - 1] == s2_bytes[j - 1] { 0 } else { 1 }
LevCost(x, y) == IF x = y THEN 0 ELSE 1

\* The inner loop for one j: curr_row filled for i in 1..=len1, given the
\* part of it already written.  Row element k of the code is element k + 1.
RECURSIVE LevInner(_, _, _, _, _, _)
LevInner(s1_bytes, s2_bytes, j, prev_row, curr_row, i) ==
    IF i > Len(s1_bytes) THEN curr_row
    ELSE LET cost == LevCost(s1_bytes[i], s2_bytes[j])
             v == Min(Min(prev_row[i + 1] + 1, curr_row[i] + 1), prev_row[i] + cost)
             row == Append(curr_row, v)
         IN  \* the cell is written before the next one is computed
             IF Len(row) = i + 1
             THEN LevInner(s1_bytes, s2_bytes, j, prev_row, row, i + 1)
             ELSE row

\* The outer loop from j on; the swap makes the row just filled prev_row.
RECURSIVE LevOuter(_, _, _, _)
LevOuter(s1_bytes, s2_bytes, j, prev_row) ==
    IF j > Len(s2_bytes) THEN prev_row[Len(s1_bytes) + 1]
    ELSE LET curr_row == LevInner(s1_bytes, s2_bytes, j, prev_row, <<j>>, 1)
         IN  \* the row is filled before the swap
             IF Len(curr_row) = Len(prev_row)
             THEN LevOuter(s1_bytes, s2_bytes, j + 1, curr_row)
             ELSE curr_row[Len(s1_bytes) + 1]

levenshtein_distance(s1, s2) ==
    LET b1 == AsBytes(s1)
        b2 == AsBytes(s2)
        len1 == Len(b1)
        len2 == Len(b2)
        short == IF len1 > len2 THEN b2 ELSE b1
        long == IF len1 > len2 THEN b1 ELSE b2
    IN  IF len1 = 0 THEN len2
        ELSE IF len2 = 0 THEN len1
        ELSE LevOuter(short, long, 1, [k \in 1..(Len(short) + 1) |-> k - 1])

\* Mutant of is_close_match: the threshold without its floor of 1.
is_close_match_NoFloor(pattern, text, max_distance) ==
    LET threshold == IF IsSome(max_distance) THEN Val(max_distance)
                     ELSE ByteLen(pattern) \div 4
    IN  levenshtein_distance(pattern, text) <= threshold

\* max_distance.unwrap_or_else(|| max(1, pattern.len() / 4)), then the test
is_close_match(pattern, text, max_distance) ==
    LET threshold == IF IsSome(max_distance) THEN Val(max_distance)
                     ELSE Max(1, ByteLen(pattern) \div 4)
    IN  levenshtein_distance(pattern, text) <= threshold

\* a pattern of 8 bytes, and texts 2 and 3 edits away from it
LevLongPattern == [k \in 1..8 |-> "a"]

LevLongTexts == {[k \in 1..6 |-> "a"], [k \in 1..5 |-> "a"]}

LevInit ==
    /\ sc_pattern \in SeqsUpTo(LevChars, MaxLevLen) \cup {LevLongPattern}
    /\ sc_text \in SeqsUpTo(LevChars, MaxLevLen) \cup LevLongTexts
    /\ sc_is_exact = FALSE
    /\ sc_is_case_sensitive = FALSE
    /\ sc_config = DefaultConfig
    /\ rk_candidates = <<>>

LevCall ==
    /\ last_op' = [op |-> "levenshtein_distance",
                   ret |-> levenshtein_distance(sc_pattern, sc_text)]
    /\ UNCHANGED scVars
    /\ RkFrame

CloseMatchCall(max_distance) ==
    /\ last_op' = [op |-> "is_close_match", max_distance |-> max_distance,
                   ret |-> is_close_match(sc_pattern, sc_text, max_distance)]
    /\ UNCHANGED scVars
    /\ RkFrame

LevNext ==
    \/ LevCall
    \/ \E d \in {NoValue, Some(0), Some(1), Some(2)} : CloseMatchCall(d)

(***************************************************************************)
(* find_match_positions and highlight_matches (heuristic.rs).  Positions   *)
(* are byte offsets; slicing a str out of range or off a char boundary     *)
(* panics, and so does a slice whose start lies behind its end.            *)
(***************************************************************************)
ContinuationBytes == {"a9", "89"}

\* str::is_char_boundary, idx counted from 0
is_char_boundary(bytes, idx) ==
    \/ idx = 0
    \/ idx = Len(bytes)
    \/ idx < Len(bytes) /\ bytes[idx + 1] \notin ContinuationBytes

\* whether &s[from..to] is a slice the run time accepts
SliceOk(bytes, from, to) ==
    /\ from <= to
    /\ to <= Len(bytes)
    /\ is_char_boundary(bytes, from)
    /\ is_char_boundary(bytes, to)

\* &s[from..to], offsets counted from 0
Slice(bytes, from, to) == SubSeq(bytes, from + 1, to)

\* the byte offsets p >= start where needle occurs in hay
MatchesFrom(hay, needle, start) ==
    {p \in start..Len(hay) :
        p + Len(needle) <= Len(hay) /\ Slice(hay, p, p + Len(needle)) = needle}

\* The loop of find_match_positions from `start` on.
RECURSIVE FindLoop(_, _, _, _, _)
FindLoop(text_lower, pattern_lower, pattern_len, start, positions) ==
    IF ~SliceOk(text_lower, start, Len(text_lower))
    THEN [panic |-> TRUE, positions |-> positions]
    ELSE LET found == MatchesFrom(text_lower, pattern_lower, start)
         IN  IF found = {} THEN [panic |-> FALSE, positions |-> positions]
             ELSE LET absolute_pos == CHOOSE p \in found : \A q \in found : p <= q
                  IN  FindLoop(text_lower, pattern_lower, pattern_len, absolute_pos + 1,
                               Append(positions, <<absolute_pos, absolute_pos + pattern_len>>))

find_match_positions(pattern, text) ==
    FindLoop(AsBytes(ToLower(text)), AsBytes(ToLower(pattern)), ByteLen(pattern), 0, <<>>)

\* The loop of highlight_matches over the positions, and the remaining text.
RECURSIVE HighlightLoop(_, _, _, _, _, _)
HighlightLoop(text, positions, prefix, suffix, last_end, result) ==
    IF positions = <<>>
    THEN IF SliceOk(text, last_end, Len(text))
         THEN [panic |-> FALSE, out |-> result \o Slice(text, last_end, Len(text))]
         ELSE [panic |-> TRUE, out |-> result]
    ELSE LET start == Head(positions)[1]
             end == Head(positions)[2]
         IN  IF ~SliceOk(text, last_end, start) \/ ~SliceOk(text, start, end)
             THEN [panic |-> TRUE, out |-> result]
             ELSE HighlightLoop(text, Tail(positions), prefix, suffix, end,
                      result \o Slice(text, last_end, start) \o prefix
                             \o Slice(text, start, end) \o suffix)

\* The outcome of highlight_matches: a panic, or the string returned.
highlight_matches(pattern, text, prefix, suffix) ==
    LET found == find_match_positions(pattern, text)
    IN  IF found.panic THEN [panic |-> TRUE, out |-> <<>>]
        ELSE IF found.positions = <<>> THEN [panic |-> FALSE, out |-> AsBytes(text)]
        ELSE HighlightLoop(AsBytes(text), found.positions, prefix, suffix, 0, <<>>)

\* the markers the calls of the model pass
HlPrefix == <<"[">>

HlSuffix == <<"]">>

HlInit ==
    /\ sc_pattern \in SeqsUpTo(ScoreChars, MaxPatLen)
    /\ sc_text \in SeqsUpTo(ScoreChars, MaxTextLen)
    /\ sc_is_exact = FALSE
    /\ sc_is_case_sensitive = FALSE
    /\ sc_config = DefaultConfig
    /\ rk_candidates = <<>>

FindPositionsCall ==
    /\ last_op' = [op |-> "find_match_positions",
                   ret |-> find_match_positions(sc_pattern, sc_text)]
    /\ UNCHANGED scVars
    /\ RkFrame

HighlightCall ==
    /\ last_op' = [op |-> "highlight_matches",
                   ret |-> highlight_matches(sc_pattern, sc_text, HlPrefix, HlSuffix)]
    /\ UNCHANGED scVars
    /\ RkFrame

HlNext ==
    \/ FindPositionsCall
    \/ HighlightCall

(***************************************************************************)
(* Calls of incremental_score (incremental.rs) on their own                *)
(***************************************************************************)
IncrScoreChars == {"a", "A", "b"}

\* n characters that no pattern of the model holds
Pad(n) == [k \in 1..n |-> "x"]

\* long lines: "a" at index 50 and "b" at index 150; "b" at index 101 and
\* "a" at index 102; "a" at index 60 and "b" at index 70
LongTexts ==
    {Pad(FuzzyBase \div 2) \o <<"a">> \o Pad(FuzzyBase - 1) \o <<"b">>,
     Pad(FuzzyBase + 1) \o <<"b", "a">>,
     Pad(60) \o <<"a">> \o Pad(9) \o <<"b">>}

\* n times the character "a"
Run(n) == [k \in 1..n |-> "a"]

\* patterns of 8 and 11 characters, and the lines that hold all their
\* characters in order with one other character before the last
LongPatterns == {Run(7) \o <<"b">>, Run(10) \o <<"b">>}

DenseTexts == {Run(7) \o <<"x", "b">>, Run(10) \o <<"x", "b">>}

IncrScoreInit ==
    /\ sc_pattern \in SeqsUpTo(IncrScoreChars, MaxPatLen) \cup LongPatterns
    /\ sc_text \in SeqsUpTo(IncrScoreChars, MaxTextLen) \cup LongTexts \cup DenseTexts
    /\ sc_is_exact = FALSE
    /\ sc_is_case_sensitive = FALSE
    /\ sc_config = DefaultConfig
    /\ rk_candidates = <<>>

\* One call; the build decides what an overflow does.
IncrScoreCall ==
    /\ \E overflow_checks \in BOOLEAN :
           LET panic == overflow_checks /\ incremental_score_overflows(sc_pattern, sc_text)
           IN  last_op' = [op |-> "incremental_score", overflow_checks |-> overflow_checks,
                           panic |-> panic,
                           ret |-> IF panic THEN NoValue
                                   ELSE Some(incremental_score(sc_pattern, sc_text))]
    /\ UNCHANGED scVars
    /\ RkFrame

IncrScoreNext == IncrScoreCall

(***************************************************************************)
(* BoundedSearch (cache.rs)                                                *)
(***************************************************************************)
MaxCount == 2         \* new(max_results) is called with a limit up to this

\* min_results of BoundedSearch::new and ide_defaults
DefaultMinResults == 10

\* max_results of BoundedSearch::ide_defaults
IdeMaxResults == 50

\* BoundedSearch::new
BoundedSearchNew(m) ==
    [max_results |-> m, min_results |-> DefaultMinResults, stop_early |-> TRUE]

\* BoundedSearch::ide_defaults
ide_defaults ==
    [max_results |-> IdeMaxResults, min_results |-> DefaultMinResults, stop_early |-> TRUE]

\* BoundedSearch::unlimited
unlimited == [max_results |-> UsizeMax, min_results |-> 0, stop_early |-> FALSE]

\* the three constructors, and two values built field by field (the fields
\* are public)
BoundedSearches ==
    {BoundedSearchNew(m) : m \in 0..MaxCount}
        \cup {ide_defaults, unlimited,
              [max_results |-> 1, min_results |-> 1, stop_early |-> TRUE],
              [max_results |-> 1, min_results |-> 0, stop_early |-> FALSE]}

\* the counts should_stop is asked about: small ones, the ones around the
\* limits of the constructors, and the largest
Counts ==
    0..MaxCount
        \cup {DefaultMinResults - 1, DefaultMinResults, IdeMaxResults - 1, IdeMaxResults,
              UsizeMax}

\* Mutant of should_stop: min_results is not looked at.
should_stop_NoMin(b, current_count, files_matched) ==
    b.stop_early /\ current_count >= b.max_results

\* BoundedSearch::should_stop
should_stop(b, current_count, files_matched) ==
    /\ b.stop_early
    /\ current_count >= b.max_results
    /\ files_matched >= b.min_results

\* the BoundedSearch the variables hold
BoundedSearchValue ==
    [max_results |-> bs_max_results, min_results |-> bs_min_results,
     stop_early |-> bs_stop_early]

BsInit ==
    \E b \in BoundedSearches :
        /\ bs_max_results = b.max_results
        /\ bs_min_results = b.min_results
        /\ bs_stop_early = b.stop_early

ShouldStop(current_count, files_matched) ==
    /\ last_op' = [op |-> "should_stop", current_count |-> current_count,
                   files_matched |-> files_matched,
                   ret |-> should_stop(BoundedSearchValue, current_count, files_matched)]
    /\ BsFrame

BsNext == \E current_count \in Counts, files_matched \in Counts :
              ShouldStop(current_count, files_matched)

(***************************************************************************)
(* PathFilter::should_skip (optimizer.rs).  A path is the sequence of its  *)
(* segments; its bytes are the segments, each behind a "/".                *)
(***************************************************************************)
MaxSegments == 2      \* a path asked about has at most this many segments

\* skip_dirs of PathFilter::default_filter
skip_dirs ==
    <<<<"n", "o", "d", "e", "_", "m", "o", "d", "u", "l", "e", "s">>,
      <<".", "g", "i", "t">>,
      <<"t", "a", "r", "g", "e", "t">>,
      <<"b", "u", "i", "l", "d">>,
      <<"d", "i", "s", "t">>,
      <<".", "c", "a", "c", "h", "e">>,
      <<"_", "_", "p", "y", "c", "a", "c", "h", "e", "_", "_">>,
      <<".", "v", "e", "n", "v">>,
      <<"v", "e", "n", "d", "o", "r">>>>

\* the names the paths of the model are made of
SegmentNames ==
    {<<"s", "r", "c">>,
     <<"m", "a", "i", "n", ".", "r", "s">>,
     <<"b", "u", "i", "l", "d", "e", "r", ".", "r", "s">>,
     <<"m", "y", "t", "a", "r", "g", "e", "t">>,
     <<".", "g", "i", "t">>,
     <<"t", "a", "r", "g", "e", "t">>}

\* path.as_os_str().as_encoded_bytes()
RECURSIVE PathBytes(_)
PathBytes(segments) ==
    IF segments = <<>> THEN <<>>
    ELSE <<"/">> \o Head(segments) \o PathBytes(Tail(segments))

\* PathFilter::bytes_contains
bytes_contains(haystack, needle) ==
    IF needle = <<>> THEN TRUE
    ELSE IF Len(needle) > Len(haystack) THEN FALSE
    ELSE \E i \in 1..(Len(haystack) - Len(needle) + 1) :
             SubSeq(haystack, i, i + Len(needle) - 1) = needle

\* PathFilter::should_skip
should_skip(max_file_size, segments, metadata) ==
    LET path_bytes == PathBytes(segments)
    IN  IF \E k \in 1..Len(skip_dirs) : bytes_contains(path_bytes, skip_dirs[k]) THEN TRUE
        ELSE IF IsSome(metadata) /\ Val(metadata).is_file
                    /\ Val(metadata).len > max_file_size
             THEN TRUE
        ELSE FALSE

\* what std::fs::metadata can answer for a path: an error, a directory, a
\* file of exactly the size limit, a file one byte over it
Metadatas ==
    {NoValue,
     Some([is_file |-> FALSE, len |-> DefaultMaxFileSize + 1]),
     Some([is_file |-> TRUE, len |-> DefaultMaxFileSize]),
     Some([is_file |-> TRUE, len |-> DefaultMaxFileSize + 1])}

PfInit ==
    /\ pf_max_file_size = DefaultMaxFileSize
    /\ pf_path \in SeqsUpTo(SegmentNames, MaxSegments)
    /\ pf_metadata \in Metadatas

ShouldSkip ==
    /\ last_op' = [op |-> "should_skip",
                   ret |-> should_skip(pf_max_file_size, pf_path, pf_metadata)]
    /\ PfFrame

PfNext == ShouldSkip

(***************************************************************************)
(* Shared snapshots: the Arc values handed out by the two caches           *)
(* cache.rs DirectoryCache, optimizer.rs FileContentCache                  *)
(***************************************************************************)
\* Bound on the number of Arc allocations made in one behaviour.
MaxAllocs == 2

\* Mutant of PublishArc: an insert over an existing key writes the new
\* content into the allocation the key already holds.
PublishArc_InPlace(heap, old, content) ==
    IF old # 0
    THEN [heap |-> [heap EXCEPT ![old] = content], cell |-> old]
    ELSE [heap |-> Append(heap, content), cell |-> Len(heap) + 1]

\* Arc::from(content) / Arc::new(entries): every insert moves its argument
\* into a fresh allocation; the allocation a key held before is not touched,
\* the map slot only drops its reference to it.
PublishArc(heap, old, content) ==
    [heap |-> Append(heap, content), cell |-> Len(heap) + 1]

\* FileContentCache::insert, with the allocation it makes.
SnapFccInsert(path, content) ==
    LET r == InsertResult(cache, access_order, current_size_bytes, max_size_bytes,
                          path, content)
        a == PublishArc(arc_heap, fcc_arc[path], content)
    IN  /\ Len(access_order) < MaxOrder
        /\ current_size_bytes + Len(content) <= MaxCounter
        /\ Len(arc_heap) < MaxAllocs
        /\ cache' = r.cache
        /\ access_order' = r.order
        /\ current_size_bytes' = r.cur
        /\ live_order' = LiveAfterInsert(live_order, r, cache, path)
        /\ arc_heap' = IF r.cached THEN a.heap ELSE arc_heap
        /\ fcc_arc' = [q \in Paths |->
                         IF r.cached /\ q = path THEN a.cell
                         ELSE IF IsSome(r.cache[q]) THEN fcc_arc[q]
                         ELSE 0]
        /\ last_op' = [op |-> "insert", path |-> path, content |-> content,
                       evicted |-> r.evicted, cached |-> r.cached]
        /\ UNCHANGED <<max_size_bytes, dirVars, dir_arc, held>>
        /\ ArcFrame

\* FileContentCache::get: Arc::clone of the stored value; the caller keeps it.
SnapFccGet(path) ==
    /\ held' = IF fcc_arc[path] # 0
               THEN Some([arc |-> fcc_arc[path], content |-> arc_heap[fcc_arc[path]]])
               ELSE held
    /\ last_op' = [op |-> "get", path |-> path, ret |-> FccGetResult(cache, path),
                   arc |-> fcc_arc[path]]
    /\ UNCHANGED <<fccVars, dirVars, arc_heap, fcc_arc, dir_arc>>
    /\ ArcFrame

\* FileContentCache::clear
SnapFccClear ==
    /\ cache' = [p \in Paths |-> NoValue]
    /\ access_order' = <<>>
    /\ current_size_bytes' = 0
    /\ live_order' = <<>>
    /\ fcc_arc' = [p \in Paths |-> 0]
    /\ last_op' = [op |-> "clear"]
    /\ UNCHANGED <<max_size_bytes, dirVars, arc_heap, dir_arc, held>>
    /\ ArcFrame

\* DirectoryCache::insert, with the allocation it makes.
SnapDirInsert(dir, listing) ==
    LET a == PublishArc(arc_heap, dir_arc[Canon(dir)], listing)
    IN  /\ Len(arc_heap) < MaxAllocs
        /\ entries' = DirInsertResult(entries, now, dir, listing)
        /\ dir_inserted' = [dir_inserted EXCEPT
                              ![Canon(dir)] = Some([value |-> listing, at |-> now])]
        /\ arc_heap' = a.heap
        /\ dir_arc' = [dir_arc EXCEPT ![Canon(dir)] = a.cell]
        /\ last_op' = [op |-> "insert", path |-> dir, content |-> listing]
        /\ UNCHANGED <<now, fccVars, fcc_arc, held>>
        /\ ArcFrame

\* DirectoryCache::get: Arc::clone of a live entry; the caller keeps it.
SnapDirGet(dir) ==
    LET ret == DirGetResult(entries, now, dir)
        cell == IF IsSome(ret) THEN dir_arc[Canon(dir)] ELSE 0
    IN  /\ held' = IF cell # 0
                   THEN Some([arc |-> cell, content |-> arc_heap[cell]])
                   ELSE held
        /\ last_op' = [op |-> "get", path |-> dir, ret |-> ret, arc |-> cell]
        /\ UNCHANGED <<fccVars, dirVars, arc_heap, fcc_arc, dir_arc>>
        /\ ArcFrame

\* DirectoryCache::cleanup: retain drops the map's reference to expired entries.
SnapDirCleanup ==
    LET e == DirCleanupResult(entries, now)
    IN  /\ entries' = e
        /\ dir_arc' = [k \in Keys |-> IF IsSome(e[k]) THEN dir_arc[k] ELSE 0]
        /\ last_op' = [op |-> "cleanup"]
        /\ UNCHANGED <<now, dir_inserted, fccVars, arc_heap, fcc_arc, held>>
        /\ ArcFrame

\* A time-to-live passes between two calls.
SnapTick ==
    /\ now + DirTtl <= MaxTime
    /\ now' = now + DirTtl
    /\ last_op' = [op |-> "tick"]
    /\ UNCHANGED <<entries, dir_inserted, fccVars, arcVars>>
    /\ ArcFrame

\* The holder of a returned Arc dereferences it.
SnapRead ==
    /\ IsSome(held)
    /\ last_op' = [op |-> "read", given |-> Val(held).content,
                   ret |-> arc_heap[Val(held).arc]]
    /\ UNCHANGED <<fccVars, dirVars, arcVars>>
    /\ ArcFrame

SnapInit ==
    /\ arc_heap = <<>>
    /\ fcc_arc = [p \in Paths |-> 0]
    /\ dir_arc = [k \in Keys |-> 0]
    /\ held = NoValue

SnapNext ==
    \/ \E path \in Paths, content \in Contents : SnapFccInsert(path, content)
    \/ \E path \in Paths : SnapFccGet(path)
    \/ SnapFccClear
    \/ \E dir \in Dirs, listing \in Listings : SnapDirInsert(dir, listing)
    \/ \E dir \in Dirs : SnapDirGet(dir)
    \/ SnapDirCleanup
    \/ SnapTick
    \/ SnapRead

(***************************************************************************)
(* optimizer.rs PatternCache                                               *)
(***************************************************************************)
MaxCapacity == 2      \* new(max_size) is called with a capacity up to this

PcPatterns == {"p", "q", "r"}

\* PatternCache::is_cached
is_cached(keys, pattern) == \E i \in 1..Len(keys) : keys[i] = pattern

\* PatternCache::add.  Vec::remove(0) panics on an empty vector, before it
\* changes anything.
PatternCacheAdd(keys, max_size, pattern) ==
    IF Len(keys) < max_size
    THEN [panic |-> FALSE, keys |-> Append(keys, pattern)]
    ELSE IF keys = <<>>
         THEN [panic |-> TRUE, keys |-> keys]
         ELSE [panic |-> FALSE, keys |-> Append(Tail(keys), pattern)]

\* PatternCache::new
PcInit ==
    /\ pc_keys = <<>>
    /\ pc_max_size \in 0..MaxCapacity

PcAdd(pattern) ==
    LET r == PatternCacheAdd(pc_keys, pc_max_size, pattern)
    IN  /\ pc_keys' = r.keys
        /\ last_op' = [op |-> "add", pattern |-> pattern, before |-> pc_keys,
                       panic |-> r.panic]
        /\ UNCHANGED pc_max_size
        /\ PcFrame

PcIsCached(pattern) ==
    /\ last_op' = [op |-> "is_cached", pattern |-> pattern, before |-> pc_keys,
                   panic |-> FALSE, ret |-> is_cached(pc_keys, pattern)]
    /\ UNCHANGED pcVars
    /\ PcFrame

\* PatternCache::clear
PcClear ==
    /\ pc_keys' = <<>>
    /\ last_op' = [op |-> "clear", before |-> pc_keys, panic |-> FALSE]
    /\ UNCHANGED pc_max_size
    /\ PcFrame

\* PatternCache::len
PcLen ==
    /\ last_op' = [op |-> "len", before |-> pc_keys, panic |-> FALSE,
                   ret |-> Len(pc_keys)]
    /\ UNCHANGED pcVars
    /\ PcFrame

PcNext ==
    \/ \E pattern \in PcPatterns : PcAdd(pattern)
    \/ \E pattern \in PcPatterns : PcIsCached(pattern)
    \/ PcClear
    \/ PcLen

(***************************************************************************)
(* A caller of IncrementalSearch: scan, update, then reuse on typing       *)
(* incremental.rs module documentation, update, filter_results             *)
(***************************************************************************)
MaxCorpus == 2        \* a corpus has at most this many lines

\* the patterns typed, one character after the other
ReusePatterns == Prefixes(<<"a", "b", "c">>) \cup {<<"A">>, <<"b">>}

\* the lines of the corpus: short ones, and one longer than 100 characters
\* with "a" at index 50, "b" at index 150 and "c" at index 151
ReuseTexts ==
    {<<"a", "b">>, <<"A", "x", "b", "c">>, <<"c", "a">>,
     Pad(FuzzyBase \div 2) \o <<"a">> \o Pad(FuzzyBase - 1) \o <<"b", "c">>}

\* The scan a caller makes without a cache: every line of the corpus is
\* scored with incremental_score and kept when its score is above 0; the
\* i-th line is candidate i.
RECURSIVE FullScanFrom(_, _, _)
FullScanFrom(lines, pattern, i) ==
    IF i > Len(lines) THEN <<>>
    ELSE LET s == incremental_score(pattern, lines[i])
             rest == FullScanFrom(lines, pattern, i + 1)
         IN  IF U32Less(0, s)
             THEN <<MakeResult(lines[i], i, s)>> \o rest
             ELSE rest

FullScan(lines, pattern) == FullScanFrom(lines, pattern, 1)

\* whether the scan panics in a build with overflow checks
FullScanOverflows(lines, pattern) ==
    \E i \in 1..Len(lines) : incremental_score_overflows(pattern, lines[i])

ScanInit == corpus \in SeqsUpTo(ReuseTexts, MaxCorpus)

\* The caller scans the corpus for the pattern and hands the result to
\* IncrementalSearch::update; the build decides what an overflow does.
ScanUpdate(pattern) ==
    \E overflow_checks \in BOOLEAN :
        IF overflow_checks /\ FullScanOverflows(corpus, pattern)
        THEN /\ last_op' = [op |-> "scan", pattern |-> pattern, panic |-> TRUE]
             /\ UNCHANGED incVars
             /\ IncFrame
        ELSE IncrUpdate(pattern, FullScan(corpus, pattern))

\* The caller types on and asks the cache instead of scanning.
ReuseFilter(new_pattern) == IncrFilterResults(new_pattern, "incremental_score")

ReuseNext ==
    \/ \E pattern \in ReusePatterns : ScanUpdate(pattern)
    \/ \E new_pattern \in ReusePatterns : ReuseFilter(new_pattern)

(***************************************************************************)
(* A caller's fast path over IncrementalSearch: the orchestration of the   *)
(* module documentation (incremental.rs, "How it works"), whose code is    *)
(* not among the sources                                                   *)
(***************************************************************************)
\* The caller has asked can_reuse(new_pattern), been granted the reuse,
\* called filter_results(new_pattern, incremental_score) and hands the list
\* it got to update(new_pattern, list).  The build decides what an overflow
\* in the scoring does; a panic leaves the cache as it was.
WriteBack(new_pattern) ==
    /\ can_reuse(last_pattern, cached_results, new_pattern)
    /\ Len(pattern_history) <= MaxUpdates
    /\ \E overflow_checks \in BOOLEAN :
           LET panic == overflow_checks
                            /\ filter_results_overflows(cached_results, new_pattern,
                                                        "incremental_score")
               filtered == filter_results(cached_results, new_pattern,
                                          "incremental_score")
           IN  IF panic
               THEN /\ last_op' = [op |-> "write_back", pattern |-> new_pattern,
                                   panic |-> TRUE, filtered |-> <<>>,
                                   before |-> last_pattern]
                    /\ UNCHANGED incVars
               ELSE /\ last_pattern' = new_pattern
                    /\ cached_results' = Take(filtered, max_results)
                    /\ pattern_history' = PushHistory(pattern_history, new_pattern)
                    /\ last_op' = [op |-> "write_back", pattern |-> new_pattern,
                                   panic |-> FALSE, filtered |-> filtered,
                                   before |-> last_pattern]
                    /\ UNCHANGED max_results
    /\ IncFrame

WriteBackNext ==
    \/ \E pattern \in Patterns, results \in ResultLists : IncrUpdate(pattern, results)
    \/ \E new_pattern \in Patterns : IncrCanReuse(new_pattern)
    \/ \E new_pattern \in Patterns : WriteBack(new_pattern)

(***************************************************************************)
(* IncrementalSearch over a long session: the pattern history              *)
(***************************************************************************)
MaxPastCap == 2       \* updates go on until the history cap is passed by this many

\* the pattern after n key strokes
Typed(n) == [k \in 1..n |-> "f"]

\* The user types one more character and the caller hands the results of
\* the search to update.
TypeAndUpdate(results) ==
    LET pattern == Append(last_pattern, "f")
    IN  /\ Len(last_pattern) < HistoryCap + MaxPastCap
        /\ last_pattern' = pattern
        /\ cached_results' = Take(results, max_results)
        /\ pattern_history' = PushHistory(pattern_history, pattern)
        /\ last_op' = [op |-> "update", pattern |-> pattern, results |-> results]
        /\ UNCHANGED max_results
        /\ IncFrame

\* the patterns asked about next: one more key stroke, or the last one deleted
NextPatterns(lp) ==
    {Append(lp, "f"), Append(lp, "n"), SubSeq(lp, 1, Len(lp) - 1)}

HistoryNext ==
    \/ \E results \in SeqsUpTo(Pool, 1) : TypeAndUpdate(results)
    \/ \E new_pattern \in NextPatterns(last_pattern) : IncrCanReuse(new_pattern)
    \/ \E new_pattern \in NextPatterns(last_pattern) :
           IncrFilterResults(new_pattern, "incremental_score")
    \/ IncrClear

(***************************************************************************)
(* A scan loop that polls should_stop (cache.rs)                           *)
(*                                                                         *)
(* The loop adds one result at a time, each from the file of the result    *)
(* before or from a further file, polls should_stop(result_count,          *)
(* files_matched) after every addition and ends as soon as the poll        *)
(* returns true.                                                           *)
(***************************************************************************)
MaxScanned == 12      \* the scan has at most this many results to add

\* One turn of the loop: a result is added and should_stop is polled.
AddAndPoll(new_file) ==
    /\ ~loop_stopped
    /\ loop_count < MaxScanned
    /\ new_file \/ loop_files > 0
    /\ LET count == loop_count + 1
           files == IF new_file THEN loop_files + 1 ELSE loop_files
           stop == should_stop(BoundedSearchValue, count, files)
       IN  /\ loop_count' = count
           /\ loop_files' = files
           /\ loop_stopped' = stop
           /\ last_op' = [op |-> "add_and_poll", current_count |-> count,
                          files_matched |-> files, ret |-> stop]
    /\ UNCHANGED <<fccVars, dirVars, incVars, srcVars, scVars, rkVars, pcVars, bsVars,
                   pfVars, arcVars, scanVars, binVars, cfgVars, fsVars>>

LoopNext == \E new_file \in BOOLEAN : AddAndPoll(new_file)

(***************************************************************************)
(* PathFilter::is_binary (optimizer.rs)                                    *)
(***************************************************************************)
MaxBinLen == 6        \* a short buffer has at most this many bytes

\* the 1024 of content.len().min(1024)
BinWindow == 1024

\* a null byte and another byte
BinBytes == {0, 7}

\* buffers longer than the window: a null behind the window only; nulls
\* before and behind the window; a null as the last byte of the window
LongBuffers ==
    {[i \in 1..(BinWindow + 1) |-> IF i = BinWindow + 1 THEN 0 ELSE 7],
     [i \in 1..(BinWindow + 2) |-> IF i = 1 \/ i > BinWindow THEN 0 ELSE 7],
     [i \in 1..(BinWindow + 1) |-> IF i >= BinWindow THEN 0 ELSE 7]}

\* PathFilter::is_binary.  null_ratio > 0.8 is decided on the integers:
\* a quotient n / check_len with check_len <= 1024 that differs from 4/5
\* differs by 1/5120 at least, far more than the rounding of an f32.
is_binary(skip_binary, content) ==
    IF ~skip_binary \/ content = <<>> THEN FALSE
    ELSE LET check_len == Min(Len(content), BinWindow)
             null_count == Cardinality({i \in 1..check_len : content[i] = 0})
             consecutive_pairs ==
                 Cardinality({i \in 1..(check_len - 1) :
                                  content[i] = 0 \/ content[i + 1] = 0})
         IN  IF null_count = 0 THEN FALSE
             ELSE ~(5 * (null_count + consecutive_pairs) > 4 * check_len)

BinInit ==
    /\ pf_skip_binary \in BOOLEAN
    /\ pf_content \in SeqsUpTo(BinBytes, MaxBinLen) \cup LongBuffers

IsBinaryCall ==
    /\ last_op' = [op |-> "is_binary", ret |-> is_binary(pf_skip_binary, pf_content)]
    /\ UNCHANGED <<fccVars, dirVars, incVars, srcVars, scVars, rkVars, pcVars, bsVars,
                   pfVars, arcVars, scanVars, loopVars, binVars, cfgVars, fsVars>>

BinNext == IsBinaryCall

(***************************************************************************)
(* Calls of is_word_boundary_match (heuristic.rs) on their own             *)
(***************************************************************************)
MaxWbLen == 4         \* a text asked about has at most this many characters

\* a letter, a separator and a two-byte letter
WbChars == {"a", " ", "e2"}

WbInit ==
    /\ sc_pattern \in SeqsUpTo({"a"}, MaxPatLen)
    /\ sc_text \in SeqsUpTo(WbChars, MaxWbLen)
    /\ sc_is_exact = FALSE
    /\ sc_is_case_sensitive = FALSE
    /\ sc_config \in {c \in Configs : c.weights = DefaultWeights /\ c.max_edit_distance = NoValue}
    /\ rk_candidates = <<>>

WordBoundaryCall ==
    /\ last_op' = [op |-> "is_word_boundary_match",
                   ret |-> is_word_boundary_match(sc_pattern, sc_text,
                                                  sc_config.unicode_aware)]
    /\ UNCHANGED scVars
    /\ ScFrame

WbNext == WordBoundaryCall

(***************************************************************************)
(* SimdMatcher (simd.rs).  Positions are 0-based byte offsets; a slice     *)
(* whose end lies behind the end of the text panics.                       *)
(***************************************************************************)
MaxSimdLen == 4       \* a searched text has at most this many bytes

SimdBytes == {"a", "b"}

\* SimdMatcher::find_single_byte: memchr gives the first offset of the byte
\* in text[pos..]
RECURSIVE FindSingleByteLoop(_, _, _, _)
FindSingleByteLoop(byte, text, pos, positions) ==
    LET found == {idx \in 0..(Len(text) - pos - 1) : text[pos + idx + 1] = byte}
    IN  IF found = {} THEN positions
        ELSE LET idx == CHOOSE k \in found : \A h \in found : k <= h
             IN  FindSingleByteLoop(byte, text, pos + idx + 1, Append(positions, pos + idx))

find_single_byte(byte, text) == FindSingleByteLoop(byte, text, 0, <<>>)

\* SimdMatcher::find_scalar from offset i on: &text[i..i + pattern.len()]
\* panics when i + pattern.len() exceeds text.len()
RECURSIVE FindScalarLoop(_, _, _, _)
FindScalarLoop(pattern, text, i, positions) ==
    IF i > SaturatingSub(Len(text), Len(pattern))
    THEN [panic |-> FALSE, positions |-> positions]
    ELSE IF i + Len(pattern) > Len(text)
    THEN [panic |-> TRUE, positions |-> positions]
    ELSE FindScalarLoop(pattern, text, i + 1,
                        IF SubSeq(text, i + 1, i + Len(pattern)) = pattern
                        THEN Append(positions, i) ELSE positions)

find_scalar(pattern, text) == FindScalarLoop(pattern, text, 0, <<>>)

\* SimdMatcher::find_all
find_all(pattern, text) ==
    IF pattern = <<>> \/ text = <<>> THEN [panic |-> FALSE, positions |-> <<>>]
    ELSE IF Len(pattern) = 1
    THEN [panic |-> FALSE, positions |-> find_single_byte(pattern[1], text)]
    ELSE find_scalar(pattern, text)

\* u8::to_ascii_lowercase over a slice
ToAsciiLowercase(s) == [i \in DOMAIN s |-> AsciiLowerChar(s[i])]

\* SimdCaseInsensitiveMatcher::find_all
find_all_case_insensitive(pattern, text) ==
    find_all(ToAsciiLowercase(pattern), ToAsciiLowercase(text))

SimdInit ==
    /\ sc_pattern \in SeqsUpTo(SimdBytes, MaxPatLen)
    /\ sc_text \in SeqsUpTo(SimdBytes \cup {"A"}, MaxSimdLen)
    /\ sc_is_exact = FALSE
    /\ sc_is_case_sensitive = FALSE
    /\ sc_config = DefaultConfig
    /\ rk_candidates = <<>>

FindAllCall ==
    /\ LET r == find_all(sc_pattern, sc_text)
       IN  last_op' = [op |-> "find_all", panic |-> r.panic,
                      ret |-> IF r.panic THEN NoValue ELSE Some(r.positions)]
    /\ UNCHANGED scVars
    /\ ScFrame

FindAllCaseInsensitiveCall ==
    /\ LET r == find_all_case_insensitive(sc_pattern, sc_text)
       IN  last_op' = [op |-> "find_all_case_insensitive", panic |-> r.panic,
                      ret |-> IF r.panic THEN NoValue ELSE Some(r.positions)]
    /\ UNCHANGED scVars
    /\ ScFrame

SimdNext ==
    \/ FindAllCall
    \/ FindAllCaseInsensitiveCall

(***************************************************************************)
(* RipgrepConfig (ripgrep_config.rs)                                       *)
(*                                                                         *)
(* A file is the sequence of its lines.  A line is blank, a comment, text  *)
(* without "=", or an entry: a key, a value, the quotes around the value   *)
(* and whether a comment follows it.  Values are the texts written in the  *)
(* file; parsing and formatting go through the tables below.  An f32 is    *)
(* an exact rational, NaN is <<0, 0>>.                                     *)
(***************************************************************************)
MaxLines == 2         \* a file handed to parse_toml has at most this many lines

NaN == <<0, 0>>

\* the texts the model knows as numbers with a fraction, each with the f32
\* it parses to; the first text of a value is the one Display writes
F32Table ==
    <<<<"0", Rat(0, 1)>>, <<"0.3", Rat(3, 10)>>, <<"0.5", Rat(1, 2)>>,
      <<"0.6", Rat(6, 10)>>, <<"0.7", Rat(7, 10)>>, <<"0.75", Rat(3, 4)>>,
      <<"1", Rat(1, 1)>>, <<"1.0", Rat(1, 1)>>, <<"1.5", Rat(3, 2)>>,
      <<"5", Rat(5, 1)>>, <<"-0.1", Rat(-1, 10)>>, <<"NaN", NaN>>>>

\* the texts the model knows as unsigned integers
UsizeTable ==
    <<<<"0", 0>>, <<"1", 1>>, <<"2", 2>>, <<"10", 10>>, <<"50", 50>>, <<"100", 100>>,
      <<"101", 101>>, <<"200", 200>>, <<"500", 500>>>>

\* str::parse by a table: the value of the first row with this text
ParseBy(table, text) ==
    LET rows == {k \in 1..Len(table) : table[k][1] = text}
    IN  IF rows = {} THEN NoValue ELSE Some(table[CHOOSE k \in rows : TRUE][2])

\* Display by a table: the text of the first row with this value
FormatBy(table, value) ==
    LET rows == {k \in 1..Len(table) : table[k][2] = value}
    IN  table[CHOOSE k \in rows : \A h \in rows : k <= h][1]

\* value.parse::<f32>()
ParseF32(text) == ParseBy(F32Table, text)

\* value.parse::<usize>(), ::<u64>(), ::<u32>()
ParseUnsigned(text) == ParseBy(UsizeTable, text)

\* value == "true" || value == "1"
ParseFlag(text) == text = "true" \/ text = "1"

\* SearchMode::from_str
SearchModeFromStr(text) ==
    CASE text \in {"original", "Original"} -> Some("Original")
      [] text \in {"fluid", "FLUID"} -> Some("Fluid")
      [] OTHER -> NoValue

\* SearchMode::as_str
SearchModeAsStr(mode) == IF mode = "Original" THEN "original" ELSE "fluid"

\* RipgrepConfig::default
DefaultRipgrepConfig ==
    [default_mode |-> "Fluid", fluid_disabled |-> FALSE, fuzzy_threshold |-> Rat(3, 4),
     max_edit_distance |-> NoValue, heuristic_disabled |-> FALSE,
     word_boundary_bonus |-> Rat(1, 2), consecutive_match_bonus |-> Rat(1, 1),
     max_results |-> 50, enable_incremental |-> TRUE, cache_size_mb |-> 500,
     min_pattern_length |-> 1, timeout_ms |-> 0, version |-> 1]

\* (0.0..=1.0).contains(&v): false for NaN
InUnitRange(v) == v # NaN /\ RLeq(Rat(0, 1), v) /\ RLeq(v, Rat(1, 1))

\* RipgrepConfig::validate, which always returns Ok
validate(config) ==
    LET c1 == IF ~InUnitRange(config.fuzzy_threshold)
              THEN [config EXCEPT !.fuzzy_threshold = Rat(6, 10)] ELSE config
    IN  IF IsSome(c1.max_edit_distance) /\ Val(c1.max_edit_distance) > 100
        THEN [c1 EXCEPT !.max_edit_distance = Some(100)] ELSE c1

Entry(key, value) ==
    [kind |-> "entry", key |-> key, value |-> value, quote |-> "", commented |-> FALSE]

QuotedEntry(key, value) ==
    [kind |-> "entry", key |-> key, value |-> value, quote |-> "dq", commented |-> FALSE]

CommentLine == [kind |-> "comment"]

BlankLine == [kind |-> "blank"]

\* The body of the loop of parse_toml for one line.  Blank lines, comment
\* lines and lines without "=" change nothing; a comment behind an entry
\* and the quotes around a value are taken off before the key is looked at.
ParseLine(config, line) ==
    IF line.kind # "entry" THEN config
    ELSE LET key == line.key
             value == line.value
             f == ParseF32(value)
             n == ParseUnsigned(value)
         IN  CASE key = "default_mode" ->
                      [config EXCEPT !.default_mode =
                           IF IsSome(SearchModeFromStr(value))
                           THEN Val(SearchModeFromStr(value)) ELSE "Fluid"]
               [] key = "fluid_disabled" ->
                      [config EXCEPT !.fluid_disabled = ParseFlag(value)]
               [] key = "fuzzy_threshold" ->
                      IF IsSome(f) THEN [config EXCEPT !.fuzzy_threshold = Val(f)]
                      ELSE config
               [] key = "max_edit_distance" ->
                      IF IsSome(n) THEN [config EXCEPT !.max_edit_distance = Some(Val(n))]
                      ELSE config
               [] key = "heuristic_disabled" ->
                      [config EXCEPT !.heuristic_disabled = ParseFlag(value)]
               [] key = "word_boundary_bonus" ->
                      IF IsSome(f) THEN [config EXCEPT !.word_boundary_bonus = Val(f)]
                      ELSE config
               [] key = "consecutive_match_bonus" ->
                      IF IsSome(f) THEN [config EXCEPT !.consecutive_match_bonus = Val(f)]
                      ELSE config
               [] key = "max_results" ->
                      IF IsSome(n) THEN [config EXCEPT !.max_results = Val(n)] ELSE config
               [] key = "enable_incremental" ->
                      [config EXCEPT !.enable_incremental = ParseFlag(value)]
               [] key = "cache_size_mb" ->
                      IF IsSome(n) THEN [config EXCEPT !.cache_size_mb = Val(n)] ELSE config
               [] key = "min_pattern_length" ->
                      IF IsSome(n) THEN [config EXCEPT !.min_pattern_length = Val(n)]
                      ELSE config
               [] key = "timeout_ms" ->
                      IF IsSome(n) THEN [config EXCEPT !.timeout_ms = Val(n)] ELSE config
               [] key = "version" ->
                      IF IsSome(n) THEN [config EXCEPT !.version = Val(n)] ELSE config
               [] OTHER -> config

RECURSIVE ParseLines(_, _)
ParseLines(config, lines) ==
    IF lines = <<>> THEN config
    ELSE ParseLines(ParseLine(config, Head(lines)), Tail(lines))

\* RipgrepConfig::parse_toml: Ok(config) in every case
parse_toml(content) ==
    [ok |-> TRUE, config |-> validate(ParseLines(DefaultRipgrepConfig, content))]

\* RipgrepConfig::to_toml
to_toml(config) ==
    <<CommentLine, CommentLine,
      Entry("version", FormatBy(UsizeTable, config.version)),
      BlankLine, CommentLine,
      QuotedEntry("default_mode", SearchModeAsStr(config.default_mode)),
      BlankLine, CommentLine,
      Entry("fluid_disabled", IF config.fluid_disabled THEN "true" ELSE "false"),
      BlankLine, CommentLine,
      Entry("fuzzy_threshold", FormatBy(F32Table, config.fuzzy_threshold))>>
        \o (IF IsSome(config.max_edit_distance)
            THEN <<BlankLine, CommentLine,
                   Entry("max_edit_distance",
                         FormatBy(UsizeTable, Val(config.max_edit_distance)))>>
            ELSE <<>>)

\* the lines of the files handed to parse_toml
FileLines ==
    {CommentLine, [kind |-> "other"],
     [kind |-> "entry", key |-> "default_mode", value |-> "original", quote |-> "sq",
      commented |-> TRUE],
     Entry("default_mode", "bogus"), Entry("colour", "1"),
     Entry("fuzzy_threshold", "0.5"), Entry("fuzzy_threshold", "1.5"),
     Entry("fuzzy_threshold", "NaN"), Entry("fuzzy_threshold", "abc"),
     Entry("max_edit_distance", "2"), Entry("max_edit_distance", "101"),
     Entry("max_edit_distance", "-1"),
     Entry("word_boundary_bonus", "0.3"), Entry("word_boundary_bonus", "5"),
     Entry("consecutive_match_bonus", "-0.1"), Entry("consecutive_match_bonus", "x"),
     Entry("max_results", "10"), Entry("max_results", "1.0"),
     Entry("enable_incremental", "yes"), Entry("fluid_disabled", "1"),
     Entry("timeout_ms", "500"), Entry("version", "2")}

\* valid configurations handed to to_toml
SavedConfigs ==
    {DefaultRipgrepConfig,
     [DefaultRipgrepConfig EXCEPT !.default_mode = "Original", !.fluid_disabled = TRUE,
                                  !.fuzzy_threshold = Rat(7, 10),
                                  !.max_edit_distance = Some(1), !.version = 2],
     [DefaultRipgrepConfig EXCEPT !.max_results = 10],
     [DefaultRipgrepConfig EXCEPT !.enable_incremental = FALSE],
     [DefaultRipgrepConfig EXCEPT !.cache_size_mb = 100],
     [DefaultRipgrepConfig EXCEPT !.min_pattern_length = 2],
     [DefaultRipgrepConfig EXCEPT !.timeout_ms = 500],
     [DefaultRipgrepConfig EXCEPT !.heuristic_disabled = TRUE],
     [DefaultRipgrepConfig EXCEPT !.word_boundary_bonus = Rat(3, 10)],
     [DefaultRipgrepConfig EXCEPT !.consecutive_match_bonus = Rat(1, 2)]}

CfgInit ==
    /\ cfg_value \in {Some(c) : c \in SavedConfigs}
    /\ cfg_content \in IF cfg_value = Some(DefaultRipgrepConfig)
                       THEN SeqsUpTo(FileLines, MaxLines) ELSE {<<>>}

CfgFrame ==
    UNCHANGED <<fccVars, dirVars, incVars, srcVars, scVars, rkVars, pcVars, bsVars,
                pfVars, arcVars, scanVars, loopVars, binVars, fsVars>>

\* parse_toml on the content at hand, as load calls it
ParseTomlCall ==
    /\ last_op' = [op |-> "parse_toml", ret |-> parse_toml(cfg_content)]
    /\ UNCHANGED cfgVars
    /\ CfgFrame

\* to_toml on the configuration at hand, as save calls it; the content is
\* what a later load reads
ToTomlCall ==
    /\ cfg_content' = to_toml(Val(cfg_value))
    /\ last_op' = [op |-> "to_toml"]
    /\ UNCHANGED cfg_value
    /\ CfgFrame

CfgNext ==
    \/ ParseTomlCall
    \/ ToTomlCall

(***************************************************************************)
(* RipgrepConfig::save (ripgrep_config.rs) and the files it works on       *)
(*                                                                         *)
(* Every save uses the same temporary path (config_path with the extension *)
(* "tmp").  File::create opens the file at that path, truncating it when   *)
(* it exists; write_all may reach the file in several parts; a handle      *)
(* keeps writing to its file at its own offset whatever the paths name     *)
(* meanwhile (a write behind the end of a file leaves a hole); rename      *)
(* makes the configuration path name the file of the temporary path in one *)
(* step, or fails when the temporary path names nothing.  A process may    *)
(* die between any two steps.                                              *)
(***************************************************************************)
Savers == {1, 2}

\* the configuration each save writes, and the one saved before
SaverConfig(p) ==
    IF p = 1 THEN [DefaultRipgrepConfig EXCEPT !.fuzzy_threshold = Rat(1, 2)]
    ELSE [DefaultRipgrepConfig EXCEPT !.default_mode = "Original",
                                      !.max_edit_distance = Some(2)]

SaveContent(p) == to_toml(SaverConfig(p))

PreviousContent == to_toml(DefaultRipgrepConfig)

HoleLine == [kind |-> "hole"]

\* the ways write_all may hand a content to the file: at once, or in two
\* parts
WritePlans(content) ==
    {<<content>>, <<SubSeq(content, 1, 3), SubSeq(content, 4, Len(content))>>}

RECURSIVE LinesLeft(_)
LinesLeft(plan) == IF plan = <<>> THEN 0 ELSE Len(Head(plan)) + LinesLeft(Tail(plan))

\* the offset of the handle of save p: what it has written so far
SaveOffset(p) == Len(SaveContent(p)) - LinesLeft(save_plan[p])

\* a file after `part` is written at offset `off`
WriteAt(old, off, part) ==
    LET before == IF Len(old) >= off THEN SubSeq(old, 1, off)
                  ELSE old \o [k \in 1..(off - Len(old)) |-> HoleLine]
        behind == SubSeq(old, off + Len(part) + 1, Len(old))
    IN  before \o part \o behind

SaveInit ==
    /\ fs_inodes = <<PreviousContent>>
    /\ fs_config = 1
    /\ fs_tmp = 0
    /\ save_pc = [p \in Savers |-> "start"]
    /\ save_fd = [p \in Savers |-> 0]
    /\ save_plan = [p \in Savers |-> <<>>]

SaveFrame ==
    UNCHANGED <<fccVars, dirVars, incVars, srcVars, scVars, rkVars, pcVars, bsVars,
                pfVars, arcVars, scanVars, loopVars, binVars, cfgVars>>

\* save up to File::create(&temp_path): the path and the directory are
\* found, the content is formatted, the temporary file is created or
\* truncated
SaveCreate(p) ==
    /\ save_pc[p] = "start"
    /\ IF fs_tmp # 0
       THEN /\ fs_inodes' = [fs_inodes EXCEPT ![fs_tmp] = <<>>]
            /\ save_fd' = [save_fd EXCEPT ![p] = fs_tmp]
            /\ UNCHANGED fs_tmp
       ELSE /\ fs_inodes' = Append(fs_inodes, <<>>)
            /\ save_fd' = [save_fd EXCEPT ![p] = Len(fs_inodes) + 1]
            /\ fs_tmp' = Len(fs_inodes) + 1
    /\ \E plan \in WritePlans(SaveContent(p)) : save_plan' = [save_plan EXCEPT ![p] = plan]
    /\ save_pc' = [save_pc EXCEPT ![p] = "writing"]
    /\ last_op' = [op |-> "save_create", saver |-> p]
    /\ UNCHANGED fs_config
    /\ SaveFrame

\* one part of file.write_all(content.as_bytes())
SaveWrite(p) ==
    /\ save_pc[p] = "writing"
    /\ save_plan[p] # <<>>
    /\ fs_inodes' = [fs_inodes EXCEPT ![save_fd[p]] =
                         WriteAt(@, SaveOffset(p), Head(save_plan[p]))]
    /\ save_plan' = [save_plan EXCEPT ![p] = Tail(@)]
    /\ last_op' = [op |-> "save_write", saver |-> p]
    /\ UNCHANGED <<fs_config, fs_tmp, save_pc, save_fd>>
    /\ SaveFrame

\* drop(file) and fs::rename(&temp_path, &config_path)
SaveRename(p) ==
    /\ save_pc[p] = "writing"
    /\ save_plan[p] = <<>>
    /\ IF fs_tmp = 0
       THEN /\ save_pc' = [save_pc EXCEPT ![p] = "failed"]
            /\ UNCHANGED <<fs_config, fs_tmp>>
       ELSE /\ fs_config' = fs_tmp
            /\ fs_tmp' = 0
            /\ save_pc' = [save_pc EXCEPT ![p] = "done"]
    /\ save_fd' = [save_fd EXCEPT ![p] = 0]
    /\ last_op' = [op |-> "save_rename", saver |-> p]
    /\ UNCHANGED <<fs_inodes, save_plan>>
    /\ SaveFrame

\* the process of save p dies; its handle is closed
SaveCrash(p) ==
    /\ save_pc[p] \in {"start", "writing"}
    /\ save_pc' = [save_pc EXCEPT ![p] = "crashed"]
    /\ save_fd' = [save_fd EXCEPT ![p] = 0]
    /\ last_op' = [op |-> "save_crash", saver |-> p]
    /\ UNCHANGED <<fs_inodes, fs_config, fs_tmp, save_plan>>
    /\ SaveFrame

SaveNext ==
    \/ \E p \in Savers : SaveCreate(p)
    \/ \E p \in Savers : SaveWrite(p)
    \/ \E p \in Savers : SaveRename(p)
    \/ \E p \in Savers : SaveCrash(p)

(***************************************************************************)
(* Specifications, one per component                                       *)
(***************************************************************************)
\* Each of the further components while another component is examined: no
\* candidates to rank, a PatternCache built by new(0), the BoundedSearch of
\* unlimited(), no path asked about, no allocation made, an empty corpus,
\* no scan loop started, no buffer asked about, no configuration handled,
\* no file saved.
RkUnused == rk_candidates = <<>>

PcUnused == pc_keys = <<>> /\ pc_max_size = 0

BsUnused == bs_max_results = UsizeMax /\ bs_min_results = 0 /\ bs_stop_early = FALSE

PfUnused == pf_max_file_size = DefaultMaxFileSize /\ pf_path = <<>> /\ pf_metadata = NoValue

ArcUnused ==
    /\ arc_heap = <<>>
    /\ fcc_arc = [p \in Paths |-> 0]
    /\ dir_arc = [k \in Keys |-> 0]
    /\ held = NoValue

ScanUnused == corpus = <<>>

LoopUnused == loop_count = 0 /\ loop_files = 0 /\ loop_stopped = FALSE

BinUnused == pf_skip_binary = TRUE /\ pf_content = <<>>

CfgUnused == cfg_content = <<>> /\ cfg_value = NoValue

FsUnused ==
    /\ fs_inodes = <<>> /\ fs_config = 0 /\ fs_tmp = 0
    /\ save_pc = <<>> /\ save_fd = <<>> /\ save_plan = <<>>

RestUnused ==
    /\ RkUnused /\ PcUnused /\ BsUnused /\ PfUnused /\ ArcUnused /\ ScanUnused
    /\ LoopUnused /\ BinUnused /\ CfgUnused /\ FsUnused

\* No scoring call is under way.
ScUnused ==
    /\ sc_pattern = <<>>
    /\ sc_text = <<>>
    /\ sc_is_exact = FALSE
    /\ sc_is_case_sensitive = FALSE
    /\ sc_config = DefaultConfig

\* An IncrementalSearch built by new(0), while another component is examined.
IncrUnused ==
    /\ last_pattern = <<>>
    /\ cached_results = <<>>
    /\ pattern_history = <<>>
    /\ max_results = 0

InitFileCache == FccInit /\ DirInit /\ IncrUnused /\ SrcInit /\ ScUnused /\ RestUnused /\ last_op = NoOp

SpecFileCache == InitFileCache /\ [][FccNext]_vars

\* A cache built by new(0): the state of the file cache while another
\* component is examined.
FccUnused == FccInit /\ max_size_bytes = 0

InitDirCache == DirInit /\ FccUnused /\ IncrUnused /\ SrcInit /\ ScUnused /\ RestUnused /\ last_op = NoOp

SpecDirCache == InitDirCache /\ [][DirNext]_vars

InitIncremental == IncrInit /\ FccUnused /\ DirInit /\ SrcInit /\ ScUnused /\ RestUnused /\ last_op = NoOp

SpecIncremental == InitIncremental /\ [][IncrNext]_vars

InitWriteBack == IncrInit /\ FccUnused /\ DirInit /\ SrcInit /\ ScUnused /\ RestUnused /\ last_op = NoOp

SpecWriteBack == InitWriteBack /\ [][WriteBackNext]_vars

InitHistory == IncrInit /\ FccUnused /\ DirInit /\ SrcInit /\ ScUnused /\ RestUnused /\ last_op = NoOp

SpecHistory == InitHistory /\ [][HistoryNext]_vars

InitCapacity == CapInit /\ FccUnused /\ DirInit /\ SrcInit /\ ScUnused /\ RestUnused /\ last_op = NoOp

SpecCapacity == InitCapacity /\ [][IncrNext]_vars

InitSearchCache == DirInit /\ SrcInit /\ FccUnused /\ IncrUnused /\ ScUnused /\ RestUnused /\ last_op = NoOp

SpecSearchCache == InitSearchCache /\ [][SrcNext]_vars

InitScorer == ScInit /\ DirInit /\ SrcInit /\ FccUnused /\ IncrUnused /\ RestUnused /\ last_op = NoOp

SpecScorer == InitScorer /\ [][ScNext]_vars

InitWordBoundary ==
    /\ WbInit
    /\ FccUnused /\ DirInit /\ IncrUnused /\ SrcInit
    /\ PcUnused /\ BsUnused /\ PfUnused /\ ArcUnused /\ ScanUnused
    /\ LoopUnused /\ BinUnused /\ CfgUnused /\ FsUnused
    /\ last_op = NoOp

SpecWordBoundary == InitWordBoundary /\ [][WbNext]_vars

InitSimd ==
    /\ SimdInit
    /\ FccUnused /\ DirInit /\ IncrUnused /\ SrcInit
    /\ PcUnused /\ BsUnused /\ PfUnused /\ ArcUnused /\ ScanUnused
    /\ LoopUnused /\ BinUnused /\ CfgUnused /\ FsUnused
    /\ last_op = NoOp

SpecSimd == InitSimd /\ [][SimdNext]_vars

InitConfig ==
    /\ CfgInit
    /\ FccUnused /\ DirInit /\ IncrUnused /\ SrcInit /\ ScUnused
    /\ RkUnused /\ PcUnused /\ BsUnused /\ PfUnused /\ ArcUnused /\ ScanUnused
    /\ LoopUnused /\ BinUnused /\ FsUnused
    /\ last_op = NoOp

SpecConfig == InitConfig /\ [][CfgNext]_vars

InitSave ==
    /\ SaveInit
    /\ FccUnused /\ DirInit /\ IncrUnused /\ SrcInit /\ ScUnused
    /\ RkUnused /\ PcUnused /\ BsUnused /\ PfUnused /\ ArcUnused /\ ScanUnused
    /\ LoopUnused /\ BinUnused /\ CfgUnused
    /\ last_op = NoOp

SpecSave == InitSave /\ [][SaveNext]_vars

InitRank ==
    /\ RkInit
    /\ FccUnused /\ DirInit /\ IncrUnused /\ SrcInit
    /\ PcUnused /\ BsUnused /\ PfUnused /\ ArcUnused /\ ScanUnused
    /\ LoopUnused /\ BinUnused /\ CfgUnused /\ FsUnused
    /\ last_op = NoOp

SpecRank == InitRank /\ [][RkNext]_vars

InitLevenshtein ==
    /\ LevInit
    /\ FccUnused /\ DirInit /\ IncrUnused /\ SrcInit
    /\ PcUnused /\ BsUnused /\ PfUnused /\ ArcUnused /\ ScanUnused
    /\ LoopUnused /\ BinUnused /\ CfgUnused /\ FsUnused
    /\ last_op = NoOp

SpecLevenshtein == InitLevenshtein /\ [][LevNext]_vars

InitHighlight ==
    /\ HlInit
    /\ FccUnused /\ DirInit /\ IncrUnused /\ SrcInit
    /\ PcUnused /\ BsUnused /\ PfUnused /\ ArcUnused /\ ScanUnused
    /\ LoopUnused /\ BinUnused /\ CfgUnused /\ FsUnused
    /\ last_op = NoOp

SpecHighlight == InitHighlight /\ [][HlNext]_vars

InitBounded ==
    /\ BsInit
    /\ FccUnused /\ DirInit /\ IncrUnused /\ SrcInit /\ ScUnused
    /\ RkUnused /\ PcUnused /\ PfUnused /\ ArcUnused /\ ScanUnused
    /\ LoopUnused /\ BinUnused /\ CfgUnused /\ FsUnused
    /\ last_op = NoOp

SpecBounded == InitBounded /\ [][BsNext]_vars

InitScanLoop ==
    /\ BsInit
    /\ FccUnused /\ DirInit /\ IncrUnused /\ SrcInit /\ ScUnused
    /\ RkUnused /\ PcUnused /\ PfUnused /\ ArcUnused /\ ScanUnused
    /\ LoopUnused /\ BinUnused /\ CfgUnused /\ FsUnused
    /\ last_op = NoOp

SpecScanLoop == InitScanLoop /\ [][LoopNext]_vars

InitPathFilter ==
    /\ PfInit
    /\ FccUnused /\ DirInit /\ IncrUnused /\ SrcInit /\ ScUnused
    /\ RkUnused /\ PcUnused /\ BsUnused /\ ArcUnused /\ ScanUnused
    /\ LoopUnused /\ BinUnused /\ CfgUnused /\ FsUnused
    /\ last_op = NoOp

SpecPathFilter == InitPathFilter /\ [][PfNext]_vars

InitBinary ==
    /\ BinInit
    /\ FccUnused /\ DirInit /\ IncrUnused /\ SrcInit /\ ScUnused
    /\ RkUnused /\ PcUnused /\ BsUnused /\ PfUnused /\ ArcUnused /\ ScanUnused
    /\ LoopUnused /\ CfgUnused /\ FsUnused
    /\ last_op = NoOp

SpecBinary == InitBinary /\ [][BinNext]_vars

InitSnapshot ==
    /\ FccInit /\ max_size_bytes = MaxContentLen
    /\ DirInit /\ SnapInit /\ IncrUnused /\ SrcInit /\ ScUnused
    /\ RkUnused /\ PcUnused /\ BsUnused /\ PfUnused /\ ScanUnused
    /\ LoopUnused /\ BinUnused /\ CfgUnused /\ FsUnused
    /\ last_op = NoOp

SpecSnapshot == InitSnapshot /\ [][SnapNext]_vars

InitPatternCache ==
    /\ FccUnused /\ DirInit /\ IncrUnused /\ SrcInit /\ ScUnused
    /\ RkUnused /\ PcInit /\ BsUnused /\ PfUnused /\ ArcUnused /\ ScanUnused
    /\ LoopUnused /\ BinUnused /\ CfgUnused /\ FsUnused
    /\ last_op = NoOp

SpecPatternCache == InitPatternCache /\ [][PcNext]_vars

InitReuse ==
    /\ IncrInit /\ ScanInit
    /\ LoopUnused /\ BinUnused /\ CfgUnused /\ FsUnused
    /\ FccUnused /\ DirInit /\ SrcInit /\ ScUnused
    /\ RkUnused /\ PcUnused /\ BsUnused /\ PfUnused /\ ArcUnused
    /\ last_op = NoOp

SpecReuse == InitReuse /\ [][ReuseNext]_vars

InitIncrScore ==
    /\ IncrScoreInit
    /\ FccUnused /\ DirInit /\ IncrUnused /\ SrcInit
    /\ PcUnused /\ BsUnused /\ PfUnused /\ ArcUnused /\ ScanUnused
    /\ LoopUnused /\ BinUnused /\ CfgUnused /\ FsUnused
    /\ last_op = NoOp

SpecIncrScore == InitIncrScore /\ [][IncrScoreNext]_vars

(***************************************************************************)
(* Claims about FileContentCache, under SpecFileCache                      *)
(***************************************************************************)

\* The bytes the cache map really holds.
HeldBytes == SumLen(cache, Paths)

\* C1: after any sequence of insert, get and clear, current_size_bytes equals
\* the sum of the byte lengths of the values held in the cache map.
C1_SizeEqualsSum == current_size_bytes = HeldBytes

\* C2: after every insert, current_size_bytes <= max_size_bytes.
C2_SizeWithinBudget ==
    last_op.op = "insert" => current_size_bytes <= max_size_bytes

\* The paths an insert evicted are the oldest residents, oldest first.
EvictedOldestFirst(ev, live) ==
    \A i \in 1..Len(ev) : i <= Len(live) /\ ev[i] = live[i]

\* The last eviction of an insert was needed: by the cache's own byte count the
\* new content did not fit while that entry was still held.
EvictionWasNeeded(ev, c, cur, size, budget) ==
    ev # <<>> =>
        LET gone == [p \in Paths |->
                        IF p \in {ev[i] : i \in 1..(Len(ev) - 1)} THEN c[p] ELSE NoValue]
        IN  cur - SumLen(gone, Paths) + size > budget

\* C3: an insert evicts strictly in insertion order (no entry leaves while an
\* entry inserted earlier stays, also after a re-insert), it stops as soon as
\* the new entry fits, and get never changes the eviction order.
C3_FifoEviction ==
    [][/\ last_op'.op = "insert" =>
            /\ EvictedOldestFirst(last_op'.evicted, live_order)
            /\ EvictionWasNeeded(last_op'.evicted, cache, current_size_bytes,
                                 Len(last_op'.content), max_size_bytes)
       /\ last_op'.op = "get" => access_order' = access_order]_vars

\* C4: an insert of a content longer than max_size_bytes changes neither the
\* cache map, nor the eviction order list, nor current_size_bytes, and no
\* value longer than max_size_bytes is ever in the cache.
C4_OversizedRejected ==
    [][/\ (last_op'.op = "insert" /\ Len(last_op'.content) > max_size_bytes) =>
            /\ cache' = cache
            /\ access_order' = access_order
            /\ current_size_bytes' = current_size_bytes
            /\ ~last_op'.cached
       /\ \A p \in Paths : IsSome(cache'[p]) => Len(Val(cache'[p])) <= max_size_bytes]_vars

\* An oversized insert for a path that is cached has been attempted.
C4_Witness ==
    /\ last_op.op = "insert"
    /\ Len(last_op.content) > max_size_bytes
    /\ IsSome(cache[last_op.path])
    /\ current_size_bytes > 0

(***************************************************************************)
(* Claims about DirectoryCache, under SpecDirCache                         *)
(***************************************************************************)
\* What the claim says get returns, from the history of inserts alone.
DirExpected(dir) ==
    LET h == dir_inserted[Canon(dir)]
    IN  IF IsSome(h) /\ now - Val(h).at < DirTtl THEN Some(Val(h).value) ELSE NoValue

\* C5: get(dir) returns the stored listing exactly when the key has been
\* inserted and less than ttl has elapsed since its most recent insert, and
\* none at elapsed >= ttl; a re-insert replaces value and timestamp.
C5_TtlLookup ==
    /\ \A dir \in Dirs : DirGetResult(entries, now, dir) = DirExpected(dir)
    /\ last_op.op = "get" => last_op.ret = DirExpected(last_op.path)

\* A get returned a re-inserted listing in the last time unit of its life, at
\* a time when the first insert of the key would have expired.
C5_Witness ==
    /\ last_op.op = "get"
    /\ IsSome(last_op.ret)
    /\ now >= DirTtl
    /\ now - Val(dir_inserted[Canon(last_op.path)]).at = DirTtl - 1

(***************************************************************************)
(* Claims about IncrementalSearch, under SpecIncremental                   *)
(***************************************************************************)
\* b is a with exactly one character appended
OneCharLonger(a, b) == Len(b) = Len(a) + 1 /\ StartsWith(b, a)

\* What C6 says can_reuse answers.
ClaimedReuse(lp, new_pattern) ==
    /\ lp # <<>> /\ new_pattern # <<>>
    /\ OneCharLonger(lp, new_pattern) \/ OneCharLonger(new_pattern, lp)

OneByteLonger(a, b) == OneCharLonger(a, b) /\ Width(b[Len(b)]) = 1

AmendedReuse(lp, cr, new_pattern) ==
    /\ cr # <<>>
    /\ lp # <<>> /\ new_pattern # <<>>
    /\ OneByteLonger(lp, new_pattern) \/ OneByteLonger(new_pattern, lp)

FilterSpec(cr, new_pattern, f, out) ==
    LET sc(i) == ApplyScoreFn(f, ToLower(new_pattern), cr[i].text_lower)
        S == {i \in 1..Len(cr) : sc(i) > 0}
        rank(i) == 1 + Cardinality({k \in S : sc(k) > sc(i) \/ (sc(k) = sc(i) /\ k < i)})
    IN  /\ Len(out) = Cardinality(S)
        /\ \A i \in S : out[rank(i)] = [cr[i] EXCEPT !.score = sc(i)]

\* C8: filter_results(new, f) returns exactly the cached candidates with
\* f(lowercase(new), text_lower) > 0, each with that score and otherwise
\* unchanged, by score descending, equal scores in their cached order.
C8_FilterResults ==
    /\ \A new_pattern \in Patterns, f \in ScoreFns :
           FilterSpec(cached_results, new_pattern, f,
                      filter_results(cached_results, new_pattern, f))
    /\ last_op.op = "filter_results" =>
           FilterSpec(cached_results, last_op.pattern, last_op.f, last_op.ret)

\* filter_results has returned two candidates in the reverse of their cached order.
C8_Witness ==
    /\ last_op.op = "filter_results"
    /\ Len(last_op.ret) = 2
    /\ Len(cached_results) = 2
    /\ last_op.ret[1].path = cached_results[2].path
    /\ last_op.ret[2].path = cached_results[1].path
    /\ last_op.ret[1].path # last_op.ret[2].path

(***************************************************************************)
(* Claims about SearchResultCache, under SpecSearchCache                   *)
(***************************************************************************)
\* What C7 says is_valid answers.
LooseReuse(pattern) ==
    /\ now - src_updated_at < SearchTtl
    /\ \/ \E k \in 0..Len(pattern) : SubSeq(pattern, 1, k) = src_last_pattern
       \/ \E k \in 0..Len(src_last_pattern) : SubSeq(src_last_pattern, 1, k) = pattern

\* C7: is_valid(p) is true exactly when less than the TTL of 10 has elapsed
\* since the last update and p extends the cached pattern or the cached
\* pattern extends p, by any number of characters; get(p) returns the cached
\* results exactly when is_valid(p) holds, none otherwise.
C7_LooseReuse ==
    /\ \A p \in Patterns :
           /\ is_valid(src_last_pattern, src_cached_at, now, p) = LooseReuse(p)
           /\ SrcGetResult(src_last_pattern, src_last_results, src_cached_at, now, p)
                  = IF LooseReuse(p) THEN Some(src_last_results) ELSE NoValue
    /\ last_op.op = "is_valid" => last_op.ret = LooseReuse(last_op.pattern)
    /\ last_op.op = "get" =>
           last_op.ret = IF LooseReuse(last_op.pattern) THEN Some(src_last_results)
                         ELSE NoValue

\* get has handed back the results of a pattern two characters shorter, in
\* the last time unit before the cache expires.
C7_Witness ==
    /\ last_op.op = "get"
    /\ IsSome(last_op.ret)
    /\ Val(last_op.ret) # <<>>
    /\ Len(last_op.pattern) = Len(src_last_pattern) + 2
    /\ now - src_updated_at = SearchTtl - 1

(***************************************************************************)
(* Claims about the relevance scorer, under SpecScorer                     *)
(***************************************************************************)
\* C9: calculate_relevance_score_with_config returns a value in 0..=1000 for
\* every pattern, text, is_exact, is_case_sensitive and configuration, an
\* empty pattern or text included.
C9_ScoreInRange ==
    last_op.op = "score" => last_op.ret \in 0..1000

\* A call with an empty text has been scored at the top of the range, where
\* the sum of the components passes 1.0.
C9_Witness ==
    /\ last_op.op = "score"
    /\ last_op.ret = 1000
    /\ sc_text = <<>>
    /\ sc_pattern # <<>>
    /\ sc_is_case_sensitive

\* C10: the total of calculate_relevance_score_breakdown equals
\* calculate_relevance_score_with_config on the same inputs, and is the
\* clamped, scaled sum of the six components returned.
C10_BreakdownAgrees ==
    last_op.op = "breakdown" =>
        /\ last_op.ret.total =
               calculate_relevance_score_with_config(
                   sc_pattern, sc_text, sc_is_exact, sc_is_case_sensitive, sc_config)
        /\ LET r == last_op.ret
               sum == RAdd(r.exact_match, RAdd(r.case_sensitive, RAdd(r.word_boundary,
                          RAdd(r.fuzzy_match, RAdd(r.substring_match, r.length_similarity)))))
               scaled == (1000 * sum[1]) \div sum[2]
           IN  r.total = IF scaled > 1000 THEN 1000 ELSE scaled

\* A breakdown with a partial case-sensitive component and a substring
\* component has been returned, its total below the clamp.
C10_Witness ==
    /\ last_op.op = "breakdown"
    /\ last_op.ret.substring_match # <<0, 1>>
    /\ last_op.ret.case_sensitive \notin {<<0, 1>>, <<1, 2>>}
    /\ last_op.ret.length_similarity \notin {<<0, 1>>, <<1, 10>>}
    /\ last_op.ret.total < 1000

\* The six signals, each in 0..1, before any weight is applied.
Signals(pattern, text, is_exact, is_case_sensitive, config) ==
    [exact_match |-> IF is_exact THEN Rat(1, 1) ELSE Rat(0, 1),
     case_sensitive |->
         IF is_case_sensitive
         THEN IF pattern = text THEN Rat(1, 1)
              ELSE RMul(CaseRatio(pattern, text), Rat(1, 2))
         ELSE Rat(0, 1),
     word_boundary |->
         IF is_word_boundary_match(pattern, text, config.unicode_aware)
         THEN Rat(1, 1) ELSE Rat(0, 1),
     fuzzy_match |->
         IF fuzzy_match_with_threshold(pattern, text, config.fuzzy_threshold)
         THEN Rat(1, 1) ELSE Rat(0, 1),
     substring_match |->
         IF is_substring_match(pattern, text, config.case_sensitive_substring)
         THEN Rat(1, 1) ELSE Rat(0, 1),
     length_similarity |-> calculate_length_similarity(pattern, text)]

\* The score C11 describes: each signal times its coefficient in config.weights.
WeightedScore(pattern, text, is_exact, is_case_sensitive, config) ==
    LET g == Signals(pattern, text, is_exact, is_case_sensitive, config)
        w == config.weights
        term(f) == RMul(Rat(w[f], 100), g[f])
    IN  ScaleToU32(
            RAdd(RAdd(RAdd(RAdd(RAdd(term("exact_match"), term("case_sensitive")),
                term("word_boundary")), term("fuzzy_match")), term("substring_match")),
                term("length_similarity")))

\* C11: the score weights each of the six signals by the corresponding
\* coefficient of the configuration's ScoringWeights.
C11_WeightsApplied ==
    last_op.op = "score" =>
        last_op.ret = WeightedScore(sc_pattern, sc_text, sc_is_exact,
                                    sc_is_case_sensitive, sc_config)

(***************************************************************************)
(* Claims about rank_candidates, under SpecRank                            *)
(***************************************************************************)
\* The score rank_candidates gives the candidate at index i.
RankScore(i) ==
    calculate_relevance_score_with_config(
        sc_pattern, rk_candidates[i], sc_pattern = rk_candidates[i], FALSE, sc_config)

\* C12: rank_candidates returns exactly the candidates whose score, computed
\* with is_exact = (pattern == candidate) and is_case_sensitive = false, is
\* non-zero, by score descending, equal scores in their input order.
C12_RankCandidates ==
    last_op.op = "rank_candidates" =>
        LET out == last_op.ret
            S == {i \in 1..Len(rk_candidates) : RankScore(i) # 0}
            rank(i) == 1 + Cardinality({k \in S : \/ RankScore(k) > RankScore(i)
                                                  \/ RankScore(k) = RankScore(i) /\ k < i})
        IN  /\ Len(out) = Cardinality(S)
            /\ \A i \in S :
                   out[rank(i)] = [text |-> rk_candidates[i], score |-> RankScore(i)]

\* Two candidates have come back in the reverse of their input order.
C12_Witness ==
    /\ last_op.op = "rank_candidates"
    /\ Len(rk_candidates) = 2
    /\ Len(last_op.ret) = 2
    /\ last_op.ret[1].text = rk_candidates[2]
    /\ last_op.ret[1].score > last_op.ret[2].score

(***************************************************************************)
(* Claims about levenshtein_distance, under SpecLevenshtein                *)
(***************************************************************************)
\* C13: levenshtein_distance is symmetric, distance(a, a) = 0, and
\* distance("", s) = distance(s, "") = the byte length of s.
C13_LevenshteinLaws ==
    last_op.op = "levenshtein_distance" =>
        /\ last_op.ret = levenshtein_distance(sc_text, sc_pattern)
        /\ sc_pattern = sc_text => last_op.ret = 0
        /\ sc_pattern = <<>> => last_op.ret = ByteLen(sc_text)
        /\ sc_text = <<>> => last_op.ret = ByteLen(sc_pattern)

\* The distance of a longer first argument from a shorter, different second
\* one has been computed, through the swap, and a two-byte character counts
\* for more than one edit.
C13_Witness ==
    /\ last_op.op = "levenshtein_distance"
    /\ ByteLen(sc_pattern) > ByteLen(sc_text)
    /\ sc_text # <<>>
    /\ last_op.ret > Len(sc_pattern)

(***************************************************************************)
(* Claims about highlight_matches, under SpecHighlight                     *)
(***************************************************************************)
\* the output with the inserted markers deleted
StripMarkers(out) == SelectSeq(out, LAMBDA b : b \notin {"[", "]"})

\* C14: highlight_matches returns, for every pattern and text (an empty
\* pattern and overlapping occurrences included), the text with each located
\* occurrence wrapped; deleting the markers gives back the text exactly, and
\* a text with no occurrence is returned unchanged.
C14_HighlightKeepsText ==
    last_op.op = "highlight_matches" =>
        /\ ~last_op.ret.panic
        /\ StripMarkers(last_op.ret.out) = AsBytes(sc_text)
        /\ ~Contains(ToLower(sc_text), ToLower(sc_pattern)) =>
               last_op.ret.out = AsBytes(sc_text)

(***************************************************************************)
(* Claims about incremental_score, under SpecIncrScore                     *)
(***************************************************************************)
\* every character of p occurs in t, in order, behind index `from` of t
RECURSIVE InOrderFrom(_, _, _)
InOrderFrom(p, t, from) ==
    IF p = <<>> THEN TRUE
    ELSE LET hits == {k \in (from + 1)..Len(t) : t[k] = Head(p)}
         IN  /\ hits # {}
             /\ InOrderFrom(Tail(p), t, CHOOSE k \in hits : \A h \in hits : k <= h)

InOrder(p, t) == InOrderFrom(p, t, 0)

\* C15: for a non-empty pattern incremental_score returns 1000 if the
\* lower-cased text equals the lower-cased pattern, else 900 if it starts
\* with it, else 700 if it contains it, else the fuzzy score if every
\* pattern character occurs in order in the text, else 0.
C15_TierPrecedence ==
    (last_op.op = "incremental_score" /\ sc_pattern # <<>>) =>
        LET pl == ToLower(sc_pattern)
            tl == ToLower(sc_text)
        IN  /\ ~last_op.panic
            /\ Val(last_op.ret) =
                   IF tl = pl THEN 1000
                   ELSE IF StartsWith(tl, pl) THEN 900
                   ELSE IF Contains(tl, pl) THEN 700
                   ELSE IF InOrder(pl, tl) THEN FuzzyLoop(pl, tl, 0, 0, 0, FALSE).ret
                   ELSE 0

(***************************************************************************)
(* Claims about BoundedSearch, under SpecBounded                           *)
(***************************************************************************)
\* C16: should_stop(count, files) is true exactly when stop_early is set and
\* count >= max_results and files >= min_results; it is monotone in both
\* arguments, and false for every count and files under unlimited().
C16_ShouldStop ==
    last_op.op = "should_stop" =>
        /\ last_op.ret = (/\ bs_stop_early
                          /\ last_op.current_count >= bs_max_results
                          /\ last_op.files_matched >= bs_min_results)
        /\ last_op.ret =>
               \A c \in Counts, f \in Counts :
                   (c >= last_op.current_count /\ f >= last_op.files_matched)
                       => should_stop(BoundedSearchValue, c, f)
        /\ BoundedSearchValue = unlimited => ~last_op.ret

\* A search built by new has been told to go on although the result limit is
\* reached, because too few files have matched.
C16_Witness ==
    /\ last_op.op = "should_stop"
    /\ bs_stop_early
    /\ last_op.current_count >= bs_max_results
    /\ last_op.files_matched < bs_min_results
    /\ ~last_op.ret

(***************************************************************************)
(* Claims about PathFilter, under SpecPathFilter                           *)
(***************************************************************************)
\* some segment of the path is a deny-listed name
HasDeniedSegment(segments) ==
    \E i \in 1..Len(segments), k \in 1..Len(skip_dirs) : segments[i] = skip_dirs[k]

\* the path names an existing file larger than max_file_size
IsOversizedFile ==
    IsSome(pf_metadata) /\ Val(pf_metadata).is_file /\ Val(pf_metadata).len > pf_max_file_size

\* C17: should_skip is true for every path with a deny-listed name as one of
\* its segments, and false for every path none of whose segments is
\* deny-listed and which is not a file larger than max_file_size.
C17_SkipBySegment ==
    last_op.op = "should_skip" =>
        /\ HasDeniedSegment(pf_path) => last_op.ret
        /\ (~HasDeniedSegment(pf_path) /\ ~IsOversizedFile) => ~last_op.ret

(***************************************************************************)
(* Claims about the shared snapshots, under SpecSnapshot                   *)
(***************************************************************************)
\* the allocation the holder's Arc points to is no longer reachable from
\* either cache
HeldDropped ==
    /\ IsSome(held)
    /\ \A p \in Paths : fcc_arc[p] # Val(held).arc
    /\ \A k \in Keys : dir_arc[k] # Val(held).arc

\* C18: a value returned by DirectoryCache::get or FileContentCache::get
\* stays what it was: whatever inserts, evictions, cleanups and clears
\* follow, the holder reads exactly the content it was given; and every get
\* that returns a value returns the whole content of one allocation that an
\* insert published, the one the key's slot holds.
C18_SnapshotsImmutable ==
    /\ IsSome(held) => arc_heap[Val(held).arc] = Val(held).content
    /\ last_op.op = "read" => last_op.ret = last_op.given
    /\ (last_op.op = "get" /\ IsSome(last_op.ret)) =>
          /\ last_op.arc \in 1..Len(arc_heap)
          /\ arc_heap[last_op.arc] = Val(last_op.ret)
    /\ \A p \in Paths :
          IF IsSome(cache[p])
          THEN fcc_arc[p] # 0 /\ arc_heap[fcc_arc[p]] = Val(cache[p])
          ELSE fcc_arc[p] = 0

\* The holder reads its snapshot after the cache has let go of it and
\* another value has been published since.
C18_Witness ==
    /\ last_op.op = "read"
    /\ HeldDropped
    /\ Len(arc_heap) > Val(held).arc
    /\ last_op.ret = Val(held).content


(***************************************************************************)
(* Claims about PatternCache, under SpecPatternCache                       *)
(***************************************************************************)
\* C19: for every capacity, 0 included, every add, is_cached and clear
\* returns and leaves len() <= max_size; an add on a full cache removes the
\* oldest-added pattern and no other; is_cached leaves the patterns and
\* their order as they were.
C19_BoundedFifo ==
    /\ last_op.op \in {"add", "is_cached", "clear", "len"} => ~last_op.panic
    /\ Len(pc_keys) <= pc_max_size
    /\ (last_op.op = "add" /\ Len(last_op.before) = pc_max_size) =>
          pc_keys = Append(Tail(last_op.before), last_op.pattern)
    /\ (last_op.op = "add" /\ Len(last_op.before) < pc_max_size) =>
          pc_keys = Append(last_op.before, last_op.pattern)
    /\ last_op.op = "is_cached" => pc_keys = last_op.before


(***************************************************************************)
(* Claims about reuse on typing, under SpecReuse                           *)
(***************************************************************************)
\* new_pattern is last_pattern with one character typed after it
TypedOneMore(new_pattern) ==
    /\ Len(new_pattern) = Len(last_pattern) + 1
    /\ StartsWith(new_pattern, last_pattern)

\* the candidates of a result list with their scores
Scored(results) == {<<results[i].path, results[i].score>> : i \in 1..Len(results)}

\* C20: when the cache holds the complete scan of the corpus for the last
\* pattern (nothing was cut off by max_results) and the new pattern is the
\* last one with one character typed after it, filter_results with
\* incremental_score returns, and returns the candidates and scores that a
\* scan of the corpus for the new pattern finds.
C20_ReuseEqualsScan ==
    (/\ last_op.op = "filter_results"
     /\ last_op.f = "incremental_score"
     /\ TypedOneMore(last_op.pattern)
     /\ cached_results = FullScan(corpus, last_pattern))
    => /\ ~last_op.panic
       /\ Scored(last_op.ret) = Scored(FullScan(corpus, last_op.pattern))

\* new_pattern is last_pattern with its last character deleted
DeletedOne(new_pattern) ==
    /\ Len(last_pattern) = Len(new_pattern) + 1
    /\ StartsWith(last_pattern, new_pattern)

\* the candidates of a result list
Candidates(results) == {results[i].path : i \in 1..Len(results)}

\* C21: when the cache holds the complete scan of the corpus for the last
\* pattern, the new pattern is the last one with its last character deleted
\* and can_reuse grants the reuse, filter_results with incremental_score
\* returns, and returns the candidates that a scan of the corpus for the new
\* pattern finds: none of them is missing.
C21_DeletionEqualsScan ==
    (/\ last_op.op = "filter_results"
     /\ last_op.f = "incremental_score"
     /\ DeletedOne(last_op.pattern)
     /\ can_reuse(last_pattern, cached_results, last_op.pattern)
     /\ cached_results = FullScan(corpus, last_pattern))
    => /\ ~last_op.panic
       /\ Candidates(last_op.ret) = Candidates(FullScan(corpus, last_op.pattern))

(***************************************************************************)
(* Claims about reuse under SearchResultCache, under SpecSearchCache       *)
(***************************************************************************)
\* a cached result in the shape filter_results works on
AsIncrementalResult(r) == MakeResult(r.line, r.path, r.score)

\* the candidates of a result list with their scores, in order
PathScores(results) == [i \in 1..Len(results) |-> <<results[i].path, results[i].score>>]

\* the reuse operation of IncrementalSearch on a list of cached results:
\* re-score against the new pattern with f, drop the scores of 0, sort by
\* score descending
ReuseOperation(results, new_pattern, f) ==
    filter_results([i \in 1..Len(results) |-> AsIncrementalResult(results[i])],
                   new_pattern, f)

\* C22: when SearchResultCache::get grants reuse for a pattern other than
\* the cached one, the list it hands back is the cached list re-scored
\* against the new pattern by some scoring function of the caller, without
\* the candidates whose new score is 0, sorted by score descending.
C22_SameReuseOperation ==
    (/\ last_op.op = "get"
     /\ IsSome(last_op.ret)
     /\ last_op.pattern # src_last_pattern)
    => \E f \in ScoreFns :
           PathScores(Val(last_op.ret))
               = PathScores(ReuseOperation(src_last_results, last_op.pattern, f))

(***************************************************************************)
(* Claims about the fast path's write-back, under SpecWriteBack            *)
(***************************************************************************)
\* C23: once reuse was granted and the filtered list was produced for a new
\* pattern and handed to update, the cache holds the new pattern and
\* exactly the filtered list, and every following reuse decision is the one
\* can_reuse makes for the new pattern and the filtered list.
C23_FilteredBecomesCached ==
    (last_op.op = "write_back" /\ ~last_op.panic) =>
        /\ last_pattern = last_op.pattern
        /\ cached_results = last_op.filtered
        /\ \A next \in Patterns :
               can_reuse(last_pattern, cached_results, next)
                   = AmendedReuse(last_op.pattern, last_op.filtered, next)

\* After a write-back that dropped a candidate, the next one-character
\* extension is reusable although it is two characters longer than the
\* pattern the cache held before.
C23_Witness ==
    /\ last_op.op = "write_back"
    /\ ~last_op.panic
    /\ last_op.filtered # <<>>
    /\ Len(last_op.filtered) < MaxCached
    /\ \E next \in Patterns :
           /\ Len(next) = Len(last_op.before) + 2
           /\ can_reuse(last_pattern, cached_results, next)

(***************************************************************************)
(* Claims about the pattern history, under SpecHistory                     *)
(***************************************************************************)
\* the IncrementalSearch value of the state
SelfCache ==
    [last_pattern |-> last_pattern, cached_results |-> cached_results,
     pattern_history |-> pattern_history, max_results |-> max_results]

\* After n key strokes since construction or the last clear, the patterns
\* passed to update were Typed(1), ..., Typed(n); the most recent 100 of them
\* in call order.
RecentPatterns ==
    LET n == Len(last_pattern)
        m == Min(n, HistoryCap)
    IN  [i \in 1..m |-> Typed(n - m + i)]

\* C24: pattern_history never holds more than 100 patterns; it holds the
\* most recent patterns passed to update, in call order; can_reuse and
\* filter_results answer the same for a cache that differs from this one in
\* pattern_history only.
C24_HistoryBounded ==
    /\ Len(pattern_history) <= HistoryCap
    /\ pattern_history = RecentPatterns
    /\ \A h \in {<<>>, <<last_pattern>>, Tail(pattern_history \o <<last_pattern>>)} :
           LET other == [SelfCache EXCEPT !.pattern_history = h]
           IN  \A new_pattern \in NextPatterns(last_pattern) :
                   /\ CanReuseOf(other, new_pattern) = CanReuseOf(SelfCache, new_pattern)
                   /\ \A f \in ScoreFns :
                          FilterResultsOf(other, new_pattern, f)
                              = FilterResultsOf(SelfCache, new_pattern, f)

\* An update has pushed the history past its cap: the oldest pattern is gone.
C24_Witness ==
    /\ last_op.op = "update"
    /\ Len(last_pattern) = HistoryCap + 1
    /\ Len(pattern_history) = HistoryCap
    /\ pattern_history[1] = Typed(2)
    /\ cached_results # <<>>

(***************************************************************************)
(* Claims about the result limit of IncrementalSearch, under SpecCapacity  *)
(***************************************************************************)
\* C25: the cache never holds more than max_results results; update(p, R)
\* leaves exactly the first max_results elements of R (all of R when it is
\* shorter) in their order; with max_results = 0 the cache holds no result
\* and can_reuse is false for every pattern.
C25_ResultLimit ==
    /\ Len(cached_results) <= max_results
    /\ last_op.op = "update" =>
           /\ Len(cached_results) = Min(max_results, Len(last_op.results))
           /\ \A i \in 1..Len(cached_results) : cached_results[i] = last_op.results[i]
    /\ max_results = 0 =>
           /\ cached_results = <<>>
           /\ \A p \in Patterns : ~can_reuse(last_pattern, cached_results, p)
           /\ last_op.op = "can_reuse" => ~last_op.ret

\* An update was handed more results than the limit and kept the first only.
C25_Witness ==
    /\ last_op.op = "update"
    /\ max_results = 1
    /\ Len(last_op.results) = 2
    /\ last_op.results[1] # last_op.results[2]
    /\ cached_results = <<last_op.results[1]>>

(***************************************************************************)
(* Claims about an empty SearchResultCache, under SpecSearchCache          *)
(***************************************************************************)
\* C26: a SearchResultCache that holds no query, being freshly created or
\* just cleared, grants no reuse: for every pattern is_valid is false and
\* get returns none.
C26_EmptyGrantsNothing ==
    last_op.op \in {"new", "clear"} =>
        \A p \in Patterns :
            /\ ~is_valid(src_last_pattern, src_cached_at, now, p)
            /\ SrcGetResult(src_last_pattern, src_last_results, src_cached_at, now, p)
                   = NoValue

(***************************************************************************)
(* Claims about the bytes FileContentCache holds, under SpecFileCache      *)
(***************************************************************************)
\* C27: the byte lengths of the values the cache map holds add up to at
\* most max_size_bytes, and every path the map holds is in the eviction
\* order list.
C27_HeldWithinBudget ==
    /\ HeldBytes <= max_size_bytes
    /\ \A p \in Paths : IsSome(cache[p]) => p \in Range(access_order)

\* An insert has evicted an entry and left the byte counter above the
\* budget, while the map holds exactly the budget.
C27_Witness ==
    /\ last_op.op = "insert"
    /\ last_op.cached
    /\ last_op.evicted # <<>>
    /\ current_size_bytes > max_size_bytes
    /\ HeldBytes = max_size_bytes
    /\ HeldBytes > 0

(***************************************************************************)
(* Claims about the frame of DirectoryCache, under SpecDirCache            *)
(***************************************************************************)
\* C28: a get leaves the map as it is, expired entries included; a cleanup
\* removes the entries whose elapsed time is at least the ttl and no other,
\* the entries it keeps keep their value and timestamp, and get answers
\* every directory after the cleanup as it did before it.
C28_GetAndCleanupFrame ==
    [][/\ last_op'.op = "get" => entries' = entries
       /\ last_op'.op = "cleanup" =>
              /\ \A k \in Keys :
                     entries'[k] = IF IsSome(entries[k])
                                      /\ now - Val(entries[k]).cached_at < DirTtl
                                   THEN entries[k]
                                   ELSE NoValue
              /\ \A dir \in Dirs :
                     DirGetResult(entries', now', dir) = DirGetResult(entries, now, dir)]_vars

\* A cleanup has removed one directory's expired entry and kept another
\* directory's live one.
C28_Witness ==
    /\ last_op.op = "cleanup"
    /\ \E k \in Keys : IsSome(dir_inserted[k]) /\ ~IsSome(entries[k])
    /\ \E k \in Keys : IsSome(entries[k])

(***************************************************************************)
(* Claims about the fuzzy tier of incremental_score, under SpecIncrScore   *)
(***************************************************************************)
\* the call has reached the fuzzy tier: the pattern is not empty and the
\* lower-cased text holds no occurrence of the lower-cased pattern
FuzzyTier ==
    /\ last_op.op = "incremental_score"
    /\ sc_pattern # <<>>
    /\ ~Contains(ToLower(sc_text), ToLower(sc_pattern))

\* max(100 - i, 1) in the integers
ClaimedBonus(i) == IF FuzzyBase - i > 1 THEN FuzzyBase - i ELSE 1

\* the sum of the bonuses of a greedy left-to-right match of p in t behind
\* index `from` (every character of p is known to occur in order)
RECURSIVE ClaimedSum(_, _, _)
ClaimedSum(p, t, from) ==
    IF p = <<>> THEN 0
    ELSE LET hits == {k \in (from + 1)..Len(t) : t[k] = Head(p)}
             k == CHOOSE k \in hits : \A h \in hits : k <= h
         IN  ClaimedBonus(k - 1) + ClaimedSum(Tail(p), t, k)

\* C29: in the fuzzy tier each pattern character matched at text index i
\* adds max(100 - i, 1) to the score, for indexes above 100 too, without
\* underflow or wrap-around; characters are matched greedily from the left
\* over the lower-cased pattern and text.
C29_FuzzyBonus ==
    (FuzzyTier /\ InOrder(ToLower(sc_pattern), ToLower(sc_text))) =>
        /\ ~last_op.panic
        /\ Val(last_op.ret) = ClaimedSum(ToLower(sc_pattern), ToLower(sc_text), 0)

\* C30: in the fuzzy tier the score is at least 100 whenever every pattern
\* character is matched in order, and it is 0 exactly when some pattern
\* character cannot be matched in order.
C30_FuzzyFloor ==
    FuzzyTier =>
        /\ ~last_op.panic
        /\ InOrder(ToLower(sc_pattern), ToLower(sc_text)) =>
               ~U32Less(Val(last_op.ret), FuzzyBase)
        /\ (Val(last_op.ret) = 0) = ~InOrder(ToLower(sc_pattern), ToLower(sc_text))

(***************************************************************************)
(* Claims about the range and the ranking of incremental_score, under      *)
(* SpecIncrScore                                                           *)
(***************************************************************************)
\* the score of the substring tier
SubstringScore == 700

\* C31: incremental_score returns a value in 0..1000 for every pattern and
\* text, and a match of the fuzzy tier only (no occurrence of the pattern in
\* the text) scores below the 700 of a substring match.
C31_ScoreRangeAndRank ==
    last_op.op = "incremental_score" =>
        /\ ~last_op.panic
        /\ Val(last_op.ret) \in 0..1000
        /\ FuzzyTier => Val(last_op.ret) < SubstringScore

(***************************************************************************)
(* Claims about a scan loop bounded by BoundedSearch, under SpecScanLoop   *)
(***************************************************************************)
\* C32: in a loop that adds one result at a time and polls should_stop after
\* every addition, ending at the first true, a BoundedSearch with stop_early
\* set never lets the result count pass max_results, however many distinct
\* files have matched.
C32_ResultsCapped ==
    bs_stop_early => loop_count <= bs_max_results

(***************************************************************************)
(* Claims about PathFilter::is_binary, under SpecBinary                    *)
(***************************************************************************)
\* the inspected bytes: the first min(len, 1024)
Inspected == SubSeq(pf_content, 1, Min(Len(pf_content), BinWindow))

\* the inspected bytes that are null or next to a null
NullOrAdjacent ==
    {i \in 1..Len(Inspected) :
         \/ Inspected[i] = 0
         \/ i > 1 /\ Inspected[i - 1] = 0
         \/ i < Len(Inspected) /\ Inspected[i + 1] = 0}

\* C33: is_binary looks at the first min(len, 1024) bytes only; it is false
\* when skip_binary is off, the buffer is empty or those bytes hold no null;
\* otherwise it is false exactly when more than 0.8 of those bytes are null
\* or next to a null, and true otherwise.
C33_BinaryHeuristic ==
    last_op.op = "is_binary" =>
        last_op.ret =
            IF ~pf_skip_binary \/ pf_content = <<>> \/ 0 \notin Range(Inspected)
            THEN FALSE
            ELSE ~(5 * Cardinality(NullOrAdjacent) > 4 * Len(Inspected))

(***************************************************************************)
(* Claims about is_word_boundary_match, under SpecWordBoundary             *)
(***************************************************************************)
\* the alphanumeric test the configuration selects
Alnum(ch) ==
    IF sc_config.unicode_aware THEN is_alphanumeric(ch) ELSE is_ascii_alphanumeric(ch)

\* the occurrence of the pattern at char index i of the text has a
\* non-alphanumeric character, or the start or end of the text, on both sides
Flanked(i) ==
    /\ OccursAt(sc_text, sc_pattern, i)
    /\ i = 1 \/ ~Alnum(sc_text[i - 1])
    /\ i + Len(sc_pattern) > Len(sc_text) \/ ~Alnum(sc_text[i + Len(sc_pattern)])

\* C34: the word-boundary signal is awarded exactly when some occurrence of
\* the pattern in the text is flanked on both sides by a non-alphanumeric
\* character or the start or end of the text, whichever occurrence it is.
C34_AnyFlankedOccurrence ==
    last_op.op = "is_word_boundary_match" =>
        (last_op.ret = \E i \in 1..(Len(sc_text) + 1) : Flanked(i))

(***************************************************************************)
(* Claims about the edit distance, under SpecLevenshtein                   *)
(***************************************************************************)
\* The Levenshtein distance of two byte strings: the least number of
\* insertions, deletions and substitutions of one byte, by the recurrence
\* over the prefixes of both.
RECURSIVE EditDistance(_, _)
EditDistance(a, b) ==
    IF a = <<>> THEN Len(b)
    ELSE IF b = <<>> THEN Len(a)
    ELSE LET a1 == SubSeq(a, 1, Len(a) - 1)
             b1 == SubSeq(b, 1, Len(b) - 1)
             deleted == EditDistance(a1, b) + 1
             inserted == EditDistance(a, b1) + 1
             replaced == EditDistance(a1, b1) + (IF a[Len(a)] = b[Len(b)] THEN 0 ELSE 1)
         IN  Min(Min(deleted, inserted), replaced)

InsertedAgain ==
    InsertResult(cache, access_order, current_size_bytes, max_size_bytes,
                 last_op.path, last_op.content)

\* C36: cache mutations are idempotent: performing insert(path, content)
\* twice in a row leaves the entries, the eviction order and the size total
\* as performing it once does (and so does PatternCache::add for its keys).
C36_IdempotentInsert ==
    last_op.op = "insert" =>
        /\ InsertedAgain.cache = cache
        /\ InsertedAgain.order = access_order
        /\ InsertedAgain.cur = current_size_bytes

(***************************************************************************)
(* Claims about SimdMatcher, under SpecSimd                                *)
(***************************************************************************)
\* the 0-based offsets at which the pattern stands in the text
Occurrences(pattern, text) ==
    {i \in 0..(Len(text) - 1) : OccursAt(text, pattern, i + 1)}

\* C37: find_all(pattern, text) returns, in ascending order, exactly the
\* offsets i with text[i..i + len(pattern)] = pattern, overlapping ones
\* included; it returns the empty list when the pattern or the text is
\* empty and when the pattern is longer than the text.
C37_FindAll ==
    last_op.op = "find_all" =>
        /\ ~last_op.panic
        /\ LET ret == Val(last_op.ret)
           IN  /\ \A k \in 1..(Len(ret) - 1) : ret[k] < ret[k + 1]
               /\ Range(ret) = IF sc_pattern = <<>> THEN {}
                                ELSE Occurrences(sc_pattern, sc_text)

(***************************************************************************)
(* Claims about parse_toml and to_toml, under SpecConfig, and about save,   *)
(* under SpecSave                                                          *)
(***************************************************************************)
\* an entry whose value the code cannot read, or whose key it does not know
Unreadable(line) ==
    \/ line.kind # "entry"
    \/ line.key \in {"fuzzy_threshold", "word_boundary_bonus", "consecutive_match_bonus"}
           /\ ParseF32(line.value) = NoValue
    \/ line.key \in {"max_edit_distance", "max_results", "cache_size_mb",
                      "min_pattern_length", "timeout_ms", "version"}
           /\ ParseUnsigned(line.value) = NoValue
    \/ line.key \in {"fluid_disabled", "heuristic_disabled", "enable_incremental"}
           /\ line.value \notin {"true", "false", "1", "0"}
    \/ line.key = "default_mode" /\ SearchModeFromStr(line.value) = NoValue
    \/ line.key \notin DOMAIN DefaultRipgrepConfig

\* C38: every configuration parse_toml returns, for any content, has its
\* values validated: fuzzy_threshold, word_boundary_bonus and
\* consecutive_match_bonus lie in 0.0..=1.0 and max_edit_distance, when
\* present, is at most 100; parse_toml never returns an error, and
\* unreadable or unknown entries leave the defaults.
C38_ParsedIsValid ==
    last_op.op = "parse_toml" =>
        LET c == last_op.ret.config
        IN  /\ last_op.ret.ok
            /\ InUnitRange(c.fuzzy_threshold)
            /\ InUnitRange(c.word_boundary_bonus)
            /\ InUnitRange(c.consecutive_match_bonus)
            /\ IsSome(c.max_edit_distance) => Val(c.max_edit_distance) <= 100
            /\ (\A k \in 1..Len(cfg_content) : Unreadable(cfg_content[k]))
                   => c = DefaultRipgrepConfig

\* the content of the file at the configuration path
ConfigFileContent == fs_inodes[fs_config]

\* C39: save is atomic: at every point of a save, a crash between its steps
\* and two saves whose steps interleave included, the file at the
\* configuration path holds the complete previous content or the complete
\* content written by one of the saves, never a partial or mixed content.
C39_AtomicSave ==
    ConfigFileContent \in {PreviousContent} \cup {SaveContent(p) : p \in Savers}

\* C40: saving then loading restores the configuration: for every valid
\* configuration c, parse_toml(to_toml(c)) equals c in every field.
C40_RoundTrip ==
    (last_op.op = "parse_toml" /\ cfg_content = to_toml(Val(cfg_value))) =>
        last_op.ret.config = Val(cfg_value)

=============================================================================
